---- MODULE Spec2Model ----
(***************************************************************************)
(* Chronologicon engine: the ingestion job queue (utils/db.js), the worker *)
(* loop (worker.js) and the line-by-line ingestion of one job              *)
(* (eventService.processIngestionJob).                                     *)
(*                                                                         *)
(* Every awaited call of the code is one step of the worker that makes it: *)
(* the steps of different workers interleave freely, as the worker         *)
(* processes do against the shared database and upload directory.          *)
(***************************************************************************)
EXTENDS Integers, Sequences, FiniteSets, TLC

\* ------------------------------------------------------------------ bounds
\* NumWorkers worker processes; at most MaxJobs uploads, of size MaxInput in
\* all, where an upload counts one plus the number of its non-empty lines (one
\* file of two lines, or two files with one line between them); event ids
\* 1..MaxIds; at most MaxFaults failures of the database or the file system.
NumWorkers == 2
MaxJobs == 2
MaxInput == 3
MaxIds == 1
MaxFaults == 1

Workers == 1..NumWorkers

\* ------------------------------------------------------------ input files
\* One non-empty line of an uploaded file, by what the code can tell of it:
\*   token : its lowercased text contains 'eventid', 'event_id' or 'eventname'
\*   valid : it decodes (JSON.parse or parseEventLine) and passes
\*           validateAndTransformEvent
\*   id    : the eventId it carries (0: none, the store draws a fresh uuid)
\* A JSON record always has the token (its required key "eventName"); a
\* delimited header row has the token and is no valid record.
Line ==
  [token : BOOLEAN, valid : {FALSE}, id : {0}]
    \cup [token : BOOLEAN, valid : {TRUE}, id : 0..MaxIds]

SeqUpTo(S, n) == UNION {[1..k -> S] : k \in 0..n}

\* fileContent.split('\n').filter(line => line.trim() !== '')
Files == SeqUpTo(Line, MaxInput - 1)

\* ------------------------------------------------------------------ state
VARIABLES
  jobs,      \* table ingestion_jobs: jobs[j] is the row of job_id j
  fs,        \* upload directory: fs[j] is the file at source_location j
  events,    \* table historical_events
  now,       \* the database clock NOW()
  faults,    \* store and file-system failures that have happened so far
  pc,        \* pc[w]: the await the worker w is at
  job,       \* job[w]: job_id of the row findAndLockJob returned to w (0: none)
  lines,     \* lines[w]: the non-empty lines w read from the file
  idx,       \* idx[w]: the loop variable i of processIngestionJob
  isFirstLine, \* isFirstLine[w]
  errors,    \* errors[w]: the errors array of processIngestionJob
  processedCount, \* processedCount[w]
  fatal      \* fatal[w]: message of the exception thrown out of the job

\* The read side (eventService.js: getEventTimeline, findOverlappingEvents,
\* findTemporalGaps, findEventInfluencePath) and the decoding of one record.
VARIABLES
  historical_events, \* the table, with the columns the queries read
  call,      \* the call being served: its operation and its arguments
  cte,       \* the recursive query of getTimelineByRootId, as it iterates
  reply,     \* what the call returned or threw
  reads      \* the SELECT statements the call has sent to the database

qvars == <<historical_events, call, cte, reply, reads>>

\* The ingestion side: the job queue, the upload directory and the workers.
ivars ==
  <<jobs, fs, events, now, faults, pc, job, lines, idx, isFirstLine, errors,
    processedCount, fatal>>

vars == <<ivars, qvars>>

\* A nullable column: <<>> is NULL, <<v>> is the value v.
NULL == <<>>
Val(v) == <<v>>

\* ------------------------------------------------------------- Job Store
\* An entry of a job's errors array. Line-scoped errors are
\* `Line ${i + 1}: ${error.message}`; the message of an exception that aborts
\* the job has no line (line = 0).
Msg(n, text) == [line |-> n, message |-> text]

NoError == Msg(0, "")

\* INSERT INTO ingestion_jobs (job_id, source_location, status, created_at)
\* VALUES ($1, $2, 'PENDING', NOW()); the other columns take their defaults.
NewJobRow(jobId, filePath, t) ==
  [job_id |-> jobId, source_location |-> filePath, status |-> "PENDING",
   total_lines |-> NULL, processed_lines |-> 0, error_lines |-> 0,
   errors |-> NULL, start_time |-> NULL, end_time |-> NULL, created_at |-> t]

\* Rows a SELECT ... FOR UPDATE statement still in flight holds locked.
LockedRows == {job[w] : w \in {v \in Workers : pc[v] = "locked"}}

\* UPDATE of row j by worker w waits for a row lock held by another statement.
RowFree(j, w) == \A v \in Workers \ {w} : ~(pc[v] = "locked" /\ job[v] = j)

\* WHERE status = 'PENDING' ... FOR UPDATE SKIP LOCKED
Candidates(rows, locked) ==
  {j \in DOMAIN rows : rows[j].status = "PENDING" /\ j \notin locked}

\* Mutant: the oldest row is taken before the status filter.
findAndLockJob_OldestRow(rows, locked) ==
  LET c == DOMAIN rows \ locked
      o == CHOOSE j \in c : \A k \in c : rows[j].created_at <= rows[k].created_at
  IN  IF c = {} THEN 0
      ELSE IF rows[o].status = "PENDING" THEN o ELSE 0

\* Mutant: ORDER BY created_at DESC
findAndLockJob_NewestFirst(rows, locked) ==
  LET c == Candidates(rows, locked)
  IN  IF c = {} THEN 0
      ELSE CHOOSE j \in c : \A k \in c : rows[j].created_at >= rows[k].created_at

\* ORDER BY created_at ASC LIMIT 1; result.rows[0] || null (0 stands for null)
findAndLockJob(rows, locked) ==
  LET c == Candidates(rows, locked)
  IN  IF c = {} THEN 0
      ELSE CHOOSE j \in c : \A k \in c : rows[j].created_at <= rows[k].created_at

\* getIngestionJobStatus: a NULL errors column reads as the empty list.
ErrorsOf(row) == IF row.errors = NULL THEN <<>> ELSE row.errors[1]

\* Mutant: the errors are added to the stored ones.
updateJobProgress_Appends(row, processed, errs, totalLines) ==
  LET all == ErrorsOf(row) \o errs
  IN  IF totalLines # NULL
      THEN [row EXCEPT !.processed_lines = processed, !.error_lines = Len(all),
                       !.errors = Val(all), !.total_lines = totalLines]
      ELSE [row EXCEPT !.processed_lines = processed, !.error_lines = Len(all),
                       !.errors = Val(all)]

\* UPDATE ingestion_jobs SET processed_lines, error_lines, errors [, total_lines]
\* totalLines = null (NULL here) leaves total_lines alone.
updateJobProgress(row, processed, errs, totalLines) ==
  IF totalLines # NULL
  THEN [row EXCEPT !.processed_lines = processed, !.error_lines = Len(errs),
                   !.errors = Val(errs), !.total_lines = totalLines]
  ELSE [row EXCEPT !.processed_lines = processed, !.error_lines = Len(errs),
                   !.errors = Val(errs)]

\* Mutant: with messages, error_lines = their number is written too.
setJobStatus_CountsErrors(row, status, errs, t) ==
  LET r1 == [row EXCEPT !.status = status]
      r2 == IF status = "PROCESSING" THEN [r1 EXCEPT !.start_time = Val(t)] ELSE r1
      r3 == IF status \in {"COMPLETED", "FAILED"}
            THEN [r2 EXCEPT !.end_time = Val(t)] ELSE r2
  IN  IF Len(errs) > 0
      THEN [r3 EXCEPT !.errors = Val(errs), !.error_lines = Len(errs)]
      ELSE r3

\* UPDATE ingestion_jobs SET status = $2 [, start_time = NOW()]
\* [, end_time = NOW()] [, errors = $3]
setJobStatus(row, status, errs, t) ==
  LET r1 == [row EXCEPT !.status = status]
      r2 == IF status = "PROCESSING" THEN [r1 EXCEPT !.start_time = Val(t)] ELSE r1
      r3 == IF status \in {"COMPLETED", "FAILED"}
            THEN [r2 EXCEPT !.end_time = Val(t)] ELSE r2
  IN  IF Len(errs) > 0 THEN [r3 EXCEPT !.errors = Val(errs)] ELSE r3

\* ----------------------------------------------------------- Event Store
\* A row of historical_events. job, line and by are not columns: they record
\* which job, file line and worker wrote the row. event_id is the eventId of the
\* line, or a fresh uuidv4() (id = 0: equal to no other row's).
EventRow(w, j, n, ln) == [id |-> ln.id, job |-> j, line |-> n, by |-> w]

\* Mutant: event_id without PRIMARY KEY.
DuplicateKey_NoKey(store, ev) == FALSE

\* event_id UUID PRIMARY KEY: the INSERT is rejected when the id is taken.
DuplicateKey(store, ev) == ev.id # 0 /\ \E e \in store : e.id = ev.id

EventsOf(j) == {e \in events : e.job = j}

\* ----------------------------------------------------------------- Init
\* No call is being served.
NoCall == [op |-> "none"]
NoReply == [kind |-> "none"]
NoCte == [started |-> FALSE, level |-> 0, work |-> {}, rows |-> {}]

\* The workers are idle and both tables are empty.
WorkersIdle ==
  /\ jobs = <<>>
  /\ fs = <<>>
  /\ events = {}
  /\ now = 0
  /\ faults = 0
  /\ pc = [w \in Workers |-> "poll"]
  /\ job = [w \in Workers |-> 0]
  /\ lines = [w \in Workers |-> <<>>]
  /\ idx = [w \in Workers |-> 0]
  /\ isFirstLine = [w \in Workers |-> TRUE]
  /\ errors = [w \in Workers |-> <<>>]
  /\ processedCount = [w \in Workers |-> 0]
  /\ fatal = [w \in Workers |-> NoError]

Init ==
  /\ WorkersIdle
  /\ historical_events = {}
  /\ call = NoCall
  /\ cte = NoCte
  /\ reply = NoReply
  /\ reads = 0

CanFail == faults < MaxFaults

wvars == <<job, lines, idx, isFirstLine, errors, processedCount, fatal>>
locals == <<lines, idx, isFirstLine, errors, processedCount, fatal>>

\* processNextJob returns: the locals of the call are gone.
Return(w, next) ==
  /\ pc' = [pc EXCEPT ![w] = next]
  /\ job' = [job EXCEPT ![w] = 0]
  /\ lines' = [lines EXCEPT ![w] = <<>>]
  /\ idx' = [idx EXCEPT ![w] = 0]
  /\ isFirstLine' = [isFirstLine EXCEPT ![w] = TRUE]
  /\ errors' = [errors EXCEPT ![w] = <<>>]
  /\ processedCount' = [processedCount EXCEPT ![w] = 0]
  /\ fatal' = [fatal EXCEPT ![w] = NoError]

\* Size of the first n uploads.
RECURSIVE Uploaded(_)
Uploaded(n) == IF n = 0 THEN 0 ELSE 1 + Len(fs[n].content) + Uploaded(n - 1)

\* initiateFileIngestion: the upload is on disk and readable, the job is PENDING.
createIngestionJob(content) ==
  /\ Len(jobs) < MaxJobs
  /\ Uploaded(Len(fs)) + 1 + Len(content) <= MaxInput
  /\ now' = now + 1
  /\ jobs' = Append(jobs, NewJobRow(Len(jobs) + 1, Len(jobs) + 1, now'))
  /\ fs' = Append(fs, [content |-> content, exists |-> TRUE])
  /\ UNCHANGED <<events, faults, pc, wvars>>
  /\ UNCHANGED qvars

\* ----------------------------------------------------- worker.js: the loop
\* pc[w] names the await worker w is at:
\*   poll          db.findAndLockJob()                         (worker.js:21)
\*   locked        the SELECT has locked its row, not yet committed
\*   setProcessing db.setJobStatus(job_id, 'PROCESSING')       (worker.js:31)
\*   readFile      fs.readFile                          (eventService.js:337)
\*   initProgress  db.updateJobProgress, first report   (eventService.js:340)
\*   line          loop body up to db.batchInsertEvents (eventService.js:384)
\*   lineProgress  db.updateJobProgress in the loop     (eventService.js:388)
\*   finalProgress db.updateJobProgress, final report   (eventService.js:408)
\*   unlink        fs.unlink after success              (eventService.js:417)
\*   unlinkFailed  fs.unlink in the catch block         (eventService.js:428)
\*   setCompleted  db.setJobStatus(job_id, 'COMPLETED')        (worker.js:39)
\*   setFailed     db.setJobStatus(job_id, 'FAILED', [msg])    (worker.js:46)
\*   sleep         sleep(POLLING_INTERVAL)                     (worker.js:64)

Goto(w, next) == pc' = [pc EXCEPT ![w] = next]

\* for (let i = 0; i < lines.length; i++): where the loop goes with i = n
LoopAt(w, n) == IF n < Len(lines[w]) THEN "line" ELSE "finalProgress"

\* The SELECT ... FOR UPDATE SKIP LOCKED statement picks and locks its row.
SelectJob(w) ==
  /\ pc[w] = "poll"
  /\ LET j == findAndLockJob(jobs, LockedRows)
     IN  /\ job' = [job EXCEPT ![w] = j]
         /\ Goto(w, IF j = 0 THEN "sleep" ELSE "locked")
  /\ UNCHANGED <<jobs, fs, events, now, faults, locals>>
  /\ UNCHANGED qvars

\* pool.query runs the statement in its own transaction: the row lock is gone
\* when findAndLockJob returns the row.
CommitSelect(w) ==
  /\ pc[w] = "locked"
  /\ Goto(w, "setProcessing")
  /\ UNCHANGED <<jobs, fs, events, now, faults, wvars>>
  /\ UNCHANGED qvars

\* findAndLockJob throws: processNextJob's outer catch returns false.
SelectJobFails(w) ==
  /\ pc[w] = "poll"
  /\ CanFail
  /\ faults' = faults + 1
  /\ Goto(w, "sleep")
  /\ UNCHANGED <<jobs, fs, events, now, wvars>>
  /\ UNCHANGED qvars

Sleep(w) ==
  /\ pc[w] = "sleep"
  /\ Goto(w, "poll")
  /\ UNCHANGED <<jobs, fs, events, now, faults, wvars>>
  /\ UNCHANGED qvars

SetProcessing(w) ==
  /\ pc[w] = "setProcessing"
  /\ RowFree(job[w], w)
  /\ jobs' = [jobs EXCEPT ![job[w]] = setJobStatus(@, "PROCESSING", <<>>, now)]
  /\ Goto(w, "readFile")
  /\ UNCHANGED <<fs, events, now, faults, wvars>>
  /\ UNCHANGED qvars

\* Mutant: the exception of setJobStatus ends the worker loop.
SetProcessingFails_Exits(w) ==
  /\ pc[w] = "setProcessing"
  /\ CanFail
  /\ faults' = faults + 1
  /\ Return(w, "exited")
  /\ UNCHANGED <<jobs, fs, events, now>>
  /\ UNCHANGED qvars

\* setJobStatus throws outside the inner try: outer catch, return false.
SetProcessingFails(w) ==
  /\ pc[w] = "setProcessing"
  /\ CanFail
  /\ faults' = faults + 1
  /\ Return(w, "sleep")
  /\ UNCHANGED <<jobs, fs, events, now>>
  /\ UNCHANGED qvars

\* ------------------------------------- eventService.processIngestionJob
ReadFile(w) ==
  /\ pc[w] = "readFile"
  /\ fs[job[w]].exists
  /\ lines' = [lines EXCEPT ![w] = fs[job[w]].content]
  /\ Goto(w, "initProgress")
  /\ UNCHANGED <<jobs, fs, events, now, faults, job, idx, isFirstLine, errors,
                 processedCount, fatal>>
  /\ UNCHANGED qvars

\* The file is gone (ENOENT): the outer catch of processIngestionJob.
ReadFileMissing(w) ==
  /\ pc[w] = "readFile"
  /\ ~fs[job[w]].exists
  /\ fatal' = [fatal EXCEPT ![w] = Msg(0, "ENOENT")]
  /\ Goto(w, "unlinkFailed")
  /\ UNCHANGED <<jobs, fs, events, now, faults, job, lines, idx, isFirstLine,
                 errors, processedCount>>
  /\ UNCHANGED qvars

\* The file is there and cannot be read (EACCES, EIO).
ReadFileFails(w) ==
  /\ pc[w] = "readFile"
  /\ fs[job[w]].exists
  /\ CanFail
  /\ faults' = faults + 1
  /\ fatal' = [fatal EXCEPT ![w] = Msg(0, "EIO")]
  /\ Goto(w, "unlinkFailed")
  /\ UNCHANGED <<jobs, fs, events, now, job, lines, idx, isFirstLine, errors,
                 processedCount>>
  /\ UNCHANGED qvars

\* totalLines: lines.length - 1
InitialTotal(ls) == Len(ls) - 1

InitProgress(w) ==
  /\ pc[w] = "initProgress"
  /\ RowFree(job[w], w)
  /\ jobs' = [jobs EXCEPT ![job[w]] =
                updateJobProgress(@, 0, <<>>, Val(InitialTotal(lines[w])))]
  /\ Goto(w, LoopAt(w, 0))
  /\ UNCHANGED <<fs, events, now, faults, wvars>>
  /\ UNCHANGED qvars

InitProgressFails(w) ==
  /\ pc[w] = "initProgress"
  /\ CanFail
  /\ faults' = faults + 1
  /\ fatal' = [fatal EXCEPT ![w] = Msg(0, "Failed to update job progress")]
  /\ Goto(w, "unlinkFailed")
  /\ UNCHANGED <<jobs, fs, events, now, job, lines, idx, isFirstLine, errors,
                 processedCount>>
  /\ UNCHANGED qvars

\* Mutant: the header test without isFirstLine.
IsHeader_AnyLine(first, ln) == ln.token

\* isFirstLine && (line has 'eventid' | 'event_id' | 'eventname')
IsHeader(first, ln) == first /\ ln.token

\* Mutant: no per-line catch, the error of a line aborts the job.
LineError_Aborts(w, text) ==
  /\ Goto(w, "unlinkFailed")
  /\ UNCHANGED <<errors, idx>>

\* errors.push(`Line ${i + 1}: ${error.message}`) and on to the next line
LineError(w, text) ==
  /\ errors' = [errors EXCEPT ![w] = Append(@, Msg(idx[w] + 1, text))]
  /\ idx' = [idx EXCEPT ![w] = @ + 1]
  /\ Goto(w, LoopAt(w, idx[w] + 1))

CurLine(w) == lines[w][idx[w] + 1]

\* console.log('Skipping header line'); isFirstLine = false; continue
SkipHeader(w) ==
  /\ pc[w] = "line"
  /\ IsHeader(isFirstLine[w], CurLine(w))
  /\ isFirstLine' = [isFirstLine EXCEPT ![w] = FALSE]
  /\ idx' = [idx EXCEPT ![w] = @ + 1]
  /\ Goto(w, LoopAt(w, idx[w] + 1))
  /\ UNCHANGED <<jobs, fs, events, now, faults, job, lines, errors,
                 processedCount, fatal>>
  /\ UNCHANGED qvars

\* JSON.parse / parseEventLine / validateAndTransformEvent throws
RejectLine(w) ==
  /\ pc[w] = "line"
  /\ ~IsHeader(isFirstLine[w], CurLine(w))
  /\ ~CurLine(w).valid
  /\ isFirstLine' = [isFirstLine EXCEPT ![w] = FALSE]
  /\ LineError(w, "invalid")
  /\ UNCHANGED <<jobs, fs, events, now, faults, job, lines, processedCount, fatal>>
  /\ UNCHANGED qvars

\* Mutant: INSERT ... ON CONFLICT (event_id) DO UPDATE
InsertEvent_Upserts(w) ==
  /\ pc[w] = "line"
  /\ ~IsHeader(isFirstLine[w], CurLine(w))
  /\ CurLine(w).valid
  /\ LET ev == EventRow(w, job[w], idx[w] + 1, CurLine(w))
     IN  events' = {e \in events : ev.id = 0 \/ e.id # ev.id} \cup {ev}
  /\ isFirstLine' = [isFirstLine EXCEPT ![w] = FALSE]
  /\ processedCount' = [processedCount EXCEPT ![w] = @ + 1]
  /\ Goto(w, "lineProgress")
  /\ UNCHANGED <<jobs, fs, now, faults, job, lines, idx, errors, fatal>>
  /\ UNCHANGED qvars

\* await db.batchInsertEvents([validatedEvent]); processedCount++
InsertEvent(w) ==
  /\ pc[w] = "line"
  /\ ~IsHeader(isFirstLine[w], CurLine(w))
  /\ CurLine(w).valid
  /\ LET ev == EventRow(w, job[w], idx[w] + 1, CurLine(w))
     IN  /\ ~DuplicateKey(events, ev)
         /\ events' = events \cup {ev}
  /\ isFirstLine' = [isFirstLine EXCEPT ![w] = FALSE]
  /\ processedCount' = [processedCount EXCEPT ![w] = @ + 1]
  /\ Goto(w, "lineProgress")
  /\ UNCHANGED <<jobs, fs, now, faults, job, lines, idx, errors, fatal>>
  /\ UNCHANGED qvars

\* The INSERT violates the primary key: ROLLBACK, the error is the line's.
InsertDuplicate(w) ==
  /\ pc[w] = "line"
  /\ ~IsHeader(isFirstLine[w], CurLine(w))
  /\ CurLine(w).valid
  /\ DuplicateKey(events, EventRow(w, job[w], idx[w] + 1, CurLine(w)))
  /\ isFirstLine' = [isFirstLine EXCEPT ![w] = FALSE]
  /\ LineError(w, "duplicate key")
  /\ UNCHANGED <<jobs, fs, events, now, faults, job, lines, processedCount, fatal>>
  /\ UNCHANGED qvars

\* Mutant: processedCount++ before the write, which then fails.
InsertFails_CountsFirst(w) ==
  /\ pc[w] = "line"
  /\ ~IsHeader(isFirstLine[w], CurLine(w))
  /\ CurLine(w).valid
  /\ CanFail
  /\ faults' = faults + 1
  /\ isFirstLine' = [isFirstLine EXCEPT ![w] = FALSE]
  /\ processedCount' = [processedCount EXCEPT ![w] = @ + 1]
  /\ LineError(w, "Failed to insert events")
  /\ UNCHANGED <<jobs, fs, events, now, job, lines, fatal>>
  /\ UNCHANGED qvars

\* The Event Store cannot be written: ROLLBACK, the error is the line's.
InsertFails(w) ==
  /\ pc[w] = "line"
  /\ ~IsHeader(isFirstLine[w], CurLine(w))
  /\ CurLine(w).valid
  /\ CanFail
  /\ faults' = faults + 1
  /\ isFirstLine' = [isFirstLine EXCEPT ![w] = FALSE]
  /\ LineError(w, "Failed to insert events")
  /\ UNCHANGED <<jobs, fs, events, now, job, lines, processedCount, fatal>>
  /\ UNCHANGED qvars

\* await db.updateJobProgress(jobId, {processed: processedCount, errors})
LineProgress(w) ==
  /\ pc[w] = "lineProgress"
  /\ RowFree(job[w], w)
  /\ jobs' = [jobs EXCEPT ![job[w]] =
                updateJobProgress(@, processedCount[w], errors[w], NULL)]
  /\ idx' = [idx EXCEPT ![w] = @ + 1]
  /\ Goto(w, LoopAt(w, idx[w] + 1))
  /\ UNCHANGED <<fs, events, now, faults, job, lines, isFirstLine, errors,
                 processedCount, fatal>>
  /\ UNCHANGED qvars

\* updateJobProgress throws inside the per-line try: the error is the line's.
LineProgressFails(w) ==
  /\ pc[w] = "lineProgress"
  /\ CanFail
  /\ faults' = faults + 1
  /\ LineError(w, "Failed to update job progress")
  /\ UNCHANGED <<jobs, fs, events, now, job, lines, isFirstLine, processedCount,
                 fatal>>
  /\ UNCHANGED qvars

FinalProgress(w) ==
  /\ pc[w] = "finalProgress"
  /\ RowFree(job[w], w)
  /\ jobs' = [jobs EXCEPT ![job[w]] =
                updateJobProgress(@, processedCount[w], errors[w], NULL)]
  /\ Goto(w, "unlink")
  /\ UNCHANGED <<fs, events, now, faults, wvars>>
  /\ UNCHANGED qvars

FinalProgressFails(w) ==
  /\ pc[w] = "finalProgress"
  /\ CanFail
  /\ faults' = faults + 1
  /\ fatal' = [fatal EXCEPT ![w] = Msg(0, "Failed to update job progress")]
  /\ Goto(w, "unlinkFailed")
  /\ UNCHANGED <<jobs, fs, events, now, job, lines, idx, isFirstLine, errors,
                 processedCount>>
  /\ UNCHANGED qvars

\* After fs.unlink, on either path: the error of a failing unlink is logged.
AfterUnlink(w) == IF pc[w] = "unlink" THEN "setCompleted" ELSE "setFailed"

Unlink(w) ==
  /\ pc[w] \in {"unlink", "unlinkFailed"}
  /\ fs' = [fs EXCEPT ![job[w]].exists = FALSE]
  /\ Goto(w, AfterUnlink(w))
  /\ UNCHANGED <<jobs, events, now, faults, wvars>>
  /\ UNCHANGED qvars

\* Mutant: the error of fs.unlink is thrown on, as the failure of the job.
UnlinkFails_Escalates(w) ==
  /\ pc[w] \in {"unlink", "unlinkFailed"}
  /\ fs[job[w]].exists
  /\ CanFail
  /\ faults' = faults + 1
  /\ fatal' = [fatal EXCEPT ![w] = Msg(0, "EACCES")]
  /\ Goto(w, "setFailed")
  /\ UNCHANGED <<jobs, fs, events, now, job, lines, idx, isFirstLine, errors,
                 processedCount>>
  /\ UNCHANGED qvars

\* fs.unlink throws with the file still there (EACCES, EBUSY).
UnlinkFails(w) ==
  /\ pc[w] \in {"unlink", "unlinkFailed"}
  /\ fs[job[w]].exists
  /\ CanFail
  /\ faults' = faults + 1
  /\ Goto(w, AfterUnlink(w))
  /\ UNCHANGED <<jobs, fs, events, now, wvars>>
  /\ UNCHANGED qvars

\* ------------------------------------------ worker.js: terminal status
SetCompleted(w) ==
  /\ pc[w] = "setCompleted"
  /\ RowFree(job[w], w)
  /\ jobs' = [jobs EXCEPT ![job[w]] = setJobStatus(@, "COMPLETED", <<>>, now)]
  /\ Return(w, "poll")
  /\ UNCHANGED <<fs, events, now, faults>>
  /\ UNCHANGED qvars

\* setJobStatus('COMPLETED') throws inside the inner try: catch (processingError)
SetCompletedFails(w) ==
  /\ pc[w] = "setCompleted"
  /\ CanFail
  /\ faults' = faults + 1
  /\ fatal' = [fatal EXCEPT ![w] = Msg(0, "Failed to update job status")]
  /\ Goto(w, "setFailed")
  /\ UNCHANGED <<jobs, fs, events, now, job, lines, idx, isFirstLine, errors,
                 processedCount>>
  /\ UNCHANGED qvars

SetFailed(w) ==
  /\ pc[w] = "setFailed"
  /\ RowFree(job[w], w)
  /\ jobs' = [jobs EXCEPT ![job[w]] = setJobStatus(@, "FAILED", <<fatal[w]>>, now)]
  /\ Return(w, "poll")
  /\ UNCHANGED <<fs, events, now, faults>>
  /\ UNCHANGED qvars

\* setJobStatus('FAILED') throws in the catch block: outer catch, return false.
SetFailedFails(w) ==
  /\ pc[w] = "setFailed"
  /\ CanFail
  /\ faults' = faults + 1
  /\ Return(w, "sleep")
  /\ UNCHANGED <<jobs, fs, events, now>>
  /\ UNCHANGED qvars

WorkerStep(w) ==
  \/ SelectJob(w) \/ CommitSelect(w) \/ SelectJobFails(w) \/ Sleep(w)
  \/ SetProcessing(w) \/ SetProcessingFails(w)
  \/ ReadFile(w) \/ ReadFileMissing(w) \/ ReadFileFails(w)
  \/ InitProgress(w) \/ InitProgressFails(w)
  \/ SkipHeader(w) \/ RejectLine(w)
  \/ InsertEvent(w) \/ InsertDuplicate(w) \/ InsertFails(w)
  \/ LineProgress(w) \/ LineProgressFails(w)
  \/ FinalProgress(w) \/ FinalProgressFails(w)
  \/ Unlink(w) \/ UnlinkFails(w)
  \/ SetCompleted(w) \/ SetCompletedFails(w)
  \/ SetFailed(w) \/ SetFailedFails(w)

Next ==
  \/ \E content \in Files : createIngestionJob(content)
  \/ \E w \in Workers : WorkerStep(w)

Spec == Init /\ [][Next]_vars

\* Each worker process keeps running its loop.
FairSpec == Spec /\ \A w \in Workers : WF_vars(WorkerStep(w))

\* --------------------------------------------- worker.js: the process ends
\* The awaits between setJobStatus(job_id, 'PROCESSING') and the terminal
\* setJobStatus: the job is in the hands of the worker.
MidJob ==
  {"readFile", "initProgress", "line", "lineProgress", "finalProgress",
   "unlink", "unlinkFailed", "setCompleted", "setFailed"}

\* The worker process is terminated (SIGKILL, a crash, process.exit of
\* gracefulShutdown) while it waits at an await: it takes no further step. A
\* statement in flight is rolled back and its row lock released. job[w]
\* keeps the job the worker has left unfinished, if it was in the middle of
\* one.
Terminate(w) ==
  /\ pc[w] # "exited"
  /\ pc' = [pc EXCEPT ![w] = "exited"]
  /\ job' = [job EXCEPT ![w] = IF pc[w] \in MidJob THEN @ ELSE 0]
  /\ lines' = [lines EXCEPT ![w] = <<>>]
  /\ idx' = [idx EXCEPT ![w] = 0]
  /\ isFirstLine' = [isFirstLine EXCEPT ![w] = TRUE]
  /\ errors' = [errors EXCEPT ![w] = <<>>]
  /\ processedCount' = [processedCount EXCEPT ![w] = 0]
  /\ fatal' = [fatal EXCEPT ![w] = NoError]
  /\ UNCHANGED <<jobs, fs, events, now, faults>>
  /\ UNCHANGED qvars

\* The workers, any of which may be terminated at any time.
CrashNext == Next \/ \E w \in Workers : Terminate(w)

CrashSpec == Init /\ [][CrashNext]_vars

\* =================================================================== claims

JobIds == DOMAIN jobs

\* C1: each job is handed to exactly one worker: no two workers hold the same
\* job from findAndLockJob, and no two workers process the same job.
C1_EachJobOneWorker ==
  \A w \in Workers : \A v \in Workers \ {w} : job[w] # 0 => job[w] # job[v]

\* C2: a job's status only changes PENDING -> PROCESSING,
\* PROCESSING -> COMPLETED or PROCESSING -> FAILED, and never leaves COMPLETED
\* or FAILED.
StatusMoves ==
  {<<"PENDING", "PROCESSING">>, <<"PROCESSING", "COMPLETED">>,
   <<"PROCESSING", "FAILED">>}

C2_StatusTransitions ==
  [][\A j \in JobIds :
       jobs'[j].status # jobs[j].status
         => <<jobs[j].status, jobs'[j].status>> \in StatusMoves]_vars

\* ---------------------------------------------------------------- C3
\* The first non-empty line is the only one processIngestionJob can skip.
Skipped(ls, n) == n = 1 /\ ls[1].token

Counted(ls) == {n \in 1..Len(ls) : ~Skipped(ls, n)}

\* Lines of job j whose event worker w has written.
WrittenLines(w, j) == {e.line : e \in {x \in events : x.job = j /\ x.by = w}}

ErrorLines(errs) == {errs[k].line : k \in 1..Len(errs)}

\* Worker w's final progress update succeeds in this step.
FinalReport(w) == pc[w] = "finalProgress" /\ pc'[w] = "unlink"

\* Worker w's setJobStatus(job_id, 'COMPLETED') succeeds in this step.
Completes(w) == pc[w] = "setCompleted" /\ pc'[w] = "poll"

InLoop(w) == pc[w] \in {"line", "lineProgress"}

\* C4: a failing line never aborts the job: from inside the loop a worker only
\* goes on to the next line or, after the last line, to the final report; a
\* line's error is appended to errors and the loop moves to the next line; the
\* final report stores every line error; the worker then sets COMPLETED.
C4_LineFailureNeverAborts ==
  [][\A w \in Workers :
       /\ InLoop(w) => pc'[w] \in {"line", "lineProgress", "finalProgress"}
       /\ (InLoop(w) /\ pc'[w] = "finalProgress") => idx'[w] = Len(lines[w])
       /\ (InLoop(w) /\ errors'[w] # errors[w]) =>
            /\ Len(errors'[w]) = Len(errors[w]) + 1
            /\ SubSeq(errors'[w], 1, Len(errors[w])) = errors[w]
            /\ errors'[w][Len(errors'[w])].line = idx[w] + 1
            /\ idx'[w] = idx[w] + 1
       /\ FinalReport(w) => ErrorsOf(jobs'[job[w]]) = errors[w]
       /\ pc[w] = "unlink" => pc'[w] \in {"unlink", "setCompleted"}
       /\ Completes(w) => jobs'[job[w]].status = "COMPLETED"]_vars

\* Every line of a two-line file failed and the job is COMPLETED.
C4_Witness ==
  \E j \in JobIds :
    /\ jobs[j].status = "COMPLETED"
    /\ Len(fs[j].content) = 2
    /\ jobs[j].processed_lines = 0
    /\ ErrorLines(ErrorsOf(jobs[j])) = {1, 2}

\* ---------------------------------------------------------------- C5
\* Worker w's setJobStatus(job_id, 'FAILED', [message]) succeeds in this step.
Fails(w) == pc[w] = "setFailed" /\ pc'[w] = "poll"

\* C5: when the file of a claimed job cannot be read, the job ends FAILED with
\* exactly one error message and no event is written for the job.
C5_UnreadableFileFails ==
  [][\A w \in Workers :
       (Fails(w) /\ fatal[w].message \in {"ENOENT", "EIO"}) =>
          /\ jobs'[job[w]].status = "FAILED"
          /\ Len(ErrorsOf(jobs'[job[w]])) = 1
          /\ EventsOf(job[w]) = {}]_vars

\* ---------------------------------------------------------------- C6
Pending(j) == j \in JobIds /\ jobs[j].status = "PENDING"

\* C6: with every worker polling on, each job created PENDING is eventually
\* claimed: it leaves PENDING.
C6_NoJobSkipped == \A j \in 1..MaxJobs : Pending(j) ~> ~Pending(j)

\* Every job of a full queue has been claimed.
C6_Witness ==
  /\ Len(jobs) = MaxJobs
  /\ \A j \in JobIds : jobs[j].status # "PENDING"

\* ---------------------------------------------------------------- C7
\* Arguments of updateJobProgress: processed, errors, totalLines or none.
ProgressErrors == SeqUpTo({Msg(1, "invalid")}, MaxInput - 1)

ProgressTotals == {NULL} \cup {Val(n) : n \in -1..MaxInput - 1}

\* C7: updateJobProgress twice with the same arguments leaves the row that
\* updateJobProgress once leaves, for every row a job can have.
C7_UpdateProgressIdempotent ==
  \A j \in JobIds :
    \A p \in 0..MaxInput - 1 : \A errs \in ProgressErrors : \A t \in ProgressTotals :
      LET once == updateJobProgress(jobs[j], p, errs, t)
      IN  updateJobProgress(once, p, errs, t) = once

\* A row with progress and an error recorded, which a further update changes.
C7_Witness ==
  \E j \in JobIds :
    /\ jobs[j].processed_lines > 0
    /\ jobs[j].error_lines > 0
    /\ updateJobProgress(jobs[j], 0, <<>>, NULL) # jobs[j]

\* ---------------------------------------------------------------- C8
IsPrefix(a, b) == Len(a) <= Len(b) /\ SubSeq(b, 1, Len(a)) = a

\* C8: a job's errors list only accumulates: across every step the old list is
\* a prefix of the new one (setStatus with messages appends them).
C8_ErrorsOnlyAccumulate ==
  [][\A j \in JobIds : IsPrefix(ErrorsOf(jobs[j]), ErrorsOf(jobs'[j]))]_vars

\* ---------------------------------------------------------------- C9
\* C9: the processedLines stored for a job never exceeds the number of events
\* the job has written to the Event Store.
C9_WriteBeforeReport ==
  \A j \in JobIds : jobs[j].processed_lines <= Cardinality(EventsOf(j))

\* Two written events have been reported.
C9_Witness == \E j \in JobIds : jobs[j].processed_lines = 2

\* ---------------------------------------------------------------- C10
\* C10: the totalLines reported for a file with no non-empty line is 0.
C10_EmptyFileTotalZero ==
  \A j \in JobIds :
    (fs[j].content = <<>> /\ jobs[j].total_lines # NULL)
      => jobs[j].total_lines = Val(0)

\* ---------------------------------------------------------------- C24
\* A write of worker w to the Event Store has failed during its job.
StoreWriteFailed(w) ==
  \E k \in DOMAIN errors[w] : errors[w][k].message = "Failed to insert events"

\* C24: when the Event Store cannot be written to while a job is processed,
\* the job is aborted and set FAILED with the error message: the worker whose
\* write failed does not set the job COMPLETED, and the status it sets is
\* FAILED with the message among the job's errors.
C24_StoreWriteFailureFails ==
  [][\A w \in Workers :
       (StoreWriteFailed(w) /\ (Completes(w) \/ Fails(w))) =>
         /\ jobs'[job[w]].status = "FAILED"
         /\ \E k \in DOMAIN ErrorsOf(jobs'[job[w]]) :
              ErrorsOf(jobs'[job[w]])[k].message = "Failed to insert events"]_vars

\* ---------------------------------------------------------------- C26
\* db.findAndLockJob() of worker w returns in this step (it has not thrown).
Selects(w) ==
  pc[w] = "poll" /\ pc'[w] \in {"locked", "sleep"} /\ faults' = faults

PendingJobs == {j \in JobIds : jobs[j].status = "PENDING"}

\* The PENDING jobs no other caller's statement is holding.
FreeJobs == PendingJobs \ LockedRows

Oldest(j, S) == \A k \in S : jobs[j].created_at <= jobs[k].created_at

\* C26 as stated: findAndLockJob returns none exactly when no job is PENDING;
\* otherwise it returns a job that is PENDING and the oldest of the PENDING
\* jobs that no other caller is inspecting.
C26_NoneIffNoPending ==
  [][\A w \in Workers :
       Selects(w) =>
         /\ job'[w] = 0 <=> PendingJobs = {}
         /\ job'[w] # 0 => job'[w] \in FreeJobs /\ Oldest(job'[w], FreeJobs)]_vars

\* C26 (amended): findAndLockJob returns none exactly when every PENDING job
\* is under inspection by another caller (in particular when no job is
\* PENDING); otherwise it returns a job that is PENDING and the oldest of the
\* PENDING jobs that no other caller is inspecting.
C26_OldestFreePending ==
  [][\A w \in Workers :
       Selects(w) =>
         /\ job'[w] = 0 <=> FreeJobs = {}
         /\ job'[w] # 0 => job'[w] \in FreeJobs /\ Oldest(job'[w], FreeJobs)
         /\ pc'[w] = IF job'[w] = 0 THEN "sleep" ELSE "locked"]_vars

\* Two callers at once, with two jobs PENDING: one holds the older job and
\* the other has been given the younger one.
C26_Witness ==
  \E w \in Workers : \E v \in Workers \ {w} :
    /\ pc[w] = "locked" /\ pc[v] = "locked"
    /\ job[w] # job[v]
    /\ jobs[job[v]].created_at < jobs[job[w]].created_at
    /\ jobs[job[w]].status = "PENDING" /\ jobs[job[v]].status = "PENDING"

\* ---------------------------------------------------------------- C27
\* Worker w was terminated in the middle of job j, which is PROCESSING.
LeftProcessing(w, j) ==
  pc[w] = "exited" /\ job[w] = j /\ jobs[j].status = "PROCESSING"

\* C27: a job whose worker was terminated after it set the job PROCESSING
\* and before it set a terminal status stays PROCESSING for ever: no other
\* worker changes its record.
C27_StuckInProcessing ==
  [][\A w \in Workers : \A j \in JobIds :
       LeftProcessing(w, j) => jobs'[j] = jobs[j]]_vars

\* ---------------------------------------------------------------- C28
\* Worker w comes to the await named p in this step.
Enters(w, p) == pc[w] # p /\ pc'[w] = p

\* C28: on either terminal path fs.unlink of the input file is attempted
\* before the terminal status is written: a worker comes to
\* setJobStatus('COMPLETED') only from the unlink of the success path, and to
\* setJobStatus('FAILED') only from the unlink of the catch block or from a
\* setJobStatus('COMPLETED') that threw, which the unlink preceded. The
\* unlink, whether it succeeds or throws, leaves the outcome as it was: the
\* success path goes on to COMPLETED, the failure path to FAILED with the
\* message of the original failure.
C28_CleanupBeforeTerminal ==
  [][\A w \in Workers :
       /\ Enters(w, "setCompleted") => pc[w] = "unlink"
       /\ Enters(w, "setFailed") => pc[w] \in {"unlinkFailed", "setCompleted"}
       /\ (pc[w] = "unlink" /\ pc'[w] # pc[w]) =>
            pc'[w] = "setCompleted" /\ fatal'[w] = NoError
       /\ (pc[w] = "unlinkFailed" /\ pc'[w] # pc[w]) =>
            pc'[w] = "setFailed" /\ fatal'[w] = fatal[w] /\ fatal[w] # NoError
       /\ Completes(w) => jobs'[job[w]].status = "COMPLETED"
       /\ Fails(w) =>
            /\ jobs'[job[w]].status = "FAILED"
            /\ ErrorsOf(jobs'[job[w]]) = <<fatal[w]>>]_vars

\* A job is COMPLETED and its file, whose deletion failed, is still there.
C28_Witness ==
  \E j \in JobIds :
    jobs[j].status = "COMPLETED" /\ fs[j].exists /\ faults = 1

\* ---------------------------------------------------------------- C29
\* db.findAndLockJob or db.setJobStatus of worker w throws in this step.
StoreFails(w) ==
  /\ pc[w] \in {"poll", "setProcessing", "setCompleted", "setFailed"}
  /\ faults' = faults + 1
  /\ pc'[w] # pc[w]

\* C29 as stated: after a store failure in findAndLockJob or in any
\* setJobStatus of a cycle, the worker attempts findAndLockJob again after a
\* polling wait: it comes back to the poll from sleep(POLLING_INTERVAL).
C29_PollsAgainAfterWait ==
  [][\A w \in Workers :
       (Enters(w, "poll") /\ fatal[w].message = "Failed to update job status")
         => pc[w] = "sleep"]_vars

\* C29 (amended): a store failure in findAndLockJob or in a setJobStatus
\* never stops the worker. A failure of findAndLockJob, of
\* setJobStatus('PROCESSING') or of setJobStatus('FAILED') sends the worker
\* to its polling wait, and the wait ends at the next findAndLockJob; a
\* failure of setJobStatus('COMPLETED') sends it to setJobStatus('FAILED'),
\* from where it reaches the next findAndLockJob (at once when that call
\* succeeds).
C29_WorkerPollsAgain ==
  /\ [][\A w \in Workers :
          /\ StoreFails(w) =>
               pc'[w] = IF pc[w] = "setCompleted" THEN "setFailed" ELSE "sleep"
          /\ pc[w] = "sleep" => pc'[w] \in {"sleep", "poll"}
          /\ pc[w] = "setFailed" => pc'[w] \in {"setFailed", "sleep", "poll"}]_vars
  /\ \A w \in Workers : pc[w] \in {"sleep", "setFailed"} ~> pc[w] = "poll"

\* setJobStatus('COMPLETED') has thrown, the job was set FAILED with that
\* message, and the worker is at findAndLockJob again.
C29_Witness ==
  \E w \in Workers : \E j \in JobIds :
    /\ pc[w] = "poll"
    /\ faults = 1
    /\ jobs[j].status = "FAILED"
    /\ ErrorsOf(jobs[j]) = <<Msg(0, "Failed to update job status")>>

\* ---------------------------------------------------------------- C30
\* C30: while a job is PROCESSING, the processed_lines and the error_lines
\* stored for it never decrease from one update to the next.
C30_CountsNeverDecrease ==
  [][\A j \in JobIds :
       (jobs[j].status = "PROCESSING" /\ jobs'[j].status = "PROCESSING") =>
         /\ jobs'[j].processed_lines >= jobs[j].processed_lines
         /\ jobs'[j].error_lines >= jobs[j].error_lines]_vars

\* ---------------------------------------------------------------- C31
\* C31: a PENDING job has neither start_time nor end_time, a PROCESSING job
\* has start_time and no end_time, a COMPLETED or FAILED job has both; and
\* setJobStatus(PROCESSING) comes before any progress update or event write
\* of the job: a job with a reported total, with events, or in the hands of
\* a worker that is past that call, has its start_time.
C31_TimesFollowStatus ==
  \A j \in JobIds :
    /\ jobs[j].status = "PENDING" =>
         jobs[j].start_time = NULL /\ jobs[j].end_time = NULL
    /\ jobs[j].status = "PROCESSING" =>
         jobs[j].start_time # NULL /\ jobs[j].end_time = NULL
    /\ jobs[j].status \in {"COMPLETED", "FAILED"} =>
         jobs[j].start_time # NULL /\ jobs[j].end_time # NULL
    /\ (jobs[j].total_lines # NULL \/ EventsOf(j) # {}
          \/ \E w \in Workers : job[w] = j /\ pc[w] \in MidJob) =>
         jobs[j].start_time # NULL

\* ---------------------------------------------------------------- C32
\* The loop of worker w passes over its line in this step: the line is
\* neither written nor entered in errors.
Skips(w) ==
  pc[w] = "line" /\ idx'[w] = idx[w] + 1 /\ errors'[w] = errors[w]

\* C32: only the first non-empty line of a file can be skipped, and only
\* when it has a header token; the skipped line counts neither as processed
\* nor as an error; a first line that is a data record is never skipped.
C32_OnlyHeaderSkipped ==
  [][\A w \in Workers :
       Skips(w) =>
         /\ idx[w] = 0
         /\ CurLine(w).token
         /\ processedCount'[w] = processedCount[w]
         /\ ~CurLine(w).valid]_vars

\* ---------------------------------------------------------------- C35
\* C35: in every state of a job, also after a FAILED transition that records
\* an error message, error_lines is the length of the job's errors list.
C35_ErrorLinesIsLength ==
  \A j \in JobIds : jobs[j].error_lines = Len(ErrorsOf(jobs[j]))

\* ---------------------------------------------------------------- C36
\* C36: once total_lines of a job has been reported, processed_lines +
\* error_lines never exceeds it, for files with and without a header line.
C36_ProgressWithinTotal ==
  \A j \in JobIds :
    jobs[j].total_lines # NULL =>
      jobs[j].processed_lines + jobs[j].error_lines <= jobs[j].total_lines[1]

\* ---------------------------------------------------------------- C37
\* C37: when a worker completes a job, every line of the file other than a
\* skipped header is accounted for exactly once: its event is in the Event
\* Store and it is counted in processed_lines, or an error with its line
\* number is in errors, never both and never neither, also when the progress
\* update after a successful write has failed.
C37_EachLineOnce ==
  [][\A w \in Workers :
       Completes(w) =>
         LET j   == job[w]
             ls  == fs[j].content
             row == jobs'[j]
             wr  == WrittenLines(w, j)
             er  == ErrorLines(ErrorsOf(row))
         IN  /\ \A n \in Counted(ls) : (n \in wr) # (n \in er)
             /\ row.processed_lines = Cardinality(wr)]_vars

\* ---------------------------------------------------------------- C38
\* Worker w's updateJobProgress writes the job's row in this step.
ProgressWrite(w) ==
  /\ pc[w] \in {"initProgress", "lineProgress", "finalProgress"}
  /\ pc'[w] # pc[w]
  /\ jobs' # jobs

\* Worker w's setJobStatus writes the job's row in this step.
StatusWrite(w) ==
  /\ pc[w] \in {"setProcessing", "setCompleted", "setFailed"}
  /\ pc'[w] # pc[w]
  /\ jobs' # jobs

OtherJobsKept(j) == \A k \in JobIds \ {j} : jobs'[k] = jobs[k]

\* C38: updateJobProgress changes neither status, start_time, end_time nor
\* created_at of the job, and not total_lines when totalLines is omitted
\* (every call but the first of a run); setJobStatus changes neither
\* processed_lines, error_lines nor total_lines, and not errors when no
\* messages are given (every call but the one for FAILED); neither changes
\* another job.
C38_UpdatesTouchOwnFields ==
  [][\A w \in Workers :
       LET j == job[w]
       IN  /\ ProgressWrite(w) =>
                /\ jobs'[j].status = jobs[j].status
                /\ jobs'[j].start_time = jobs[j].start_time
                /\ jobs'[j].end_time = jobs[j].end_time
                /\ jobs'[j].created_at = jobs[j].created_at
                /\ pc[w] # "initProgress" =>
                     jobs'[j].total_lines = jobs[j].total_lines
                /\ OtherJobsKept(j)
           /\ StatusWrite(w) =>
                /\ jobs'[j].processed_lines = jobs[j].processed_lines
                /\ jobs'[j].error_lines = jobs[j].error_lines
                /\ jobs'[j].total_lines = jobs[j].total_lines
                /\ pc[w] # "setFailed" => jobs'[j].errors = jobs[j].errors
                /\ OtherJobsKept(j)]_vars

\* A job with a total, one line processed and one line error has been set
\* FAILED with the message of the failure, and the other job is untouched.
C38_Witness ==
  /\ Len(jobs) = 2
  /\ \E j \in JobIds :
       /\ jobs[j].status = "FAILED"
       /\ jobs[j].total_lines # NULL
       /\ jobs[j].processed_lines = 1
       /\ jobs[j].error_lines = 1
       /\ Len(ErrorsOf(jobs[j])) = 1
       /\ ErrorsOf(jobs[j])[1].line = 0
       /\ \E k \in JobIds \ {j} : jobs[k].status = "PENDING"

\* ---------------------------------------------------------------- C39
\* Worker w is at a record it would write, and the eventId of the record is
\* the event_id of a row of the store.
AtTakenId(w) ==
  /\ pc[w] = "line"
  /\ ~IsHeader(isFirstLine[w], CurLine(w))
  /\ CurLine(w).valid
  /\ CurLine(w).id # 0
  /\ \E e \in events : e.id = CurLine(w).id

\* C39: event ids are unique in the Event Store; a record whose eventId is
\* in the store is rejected: the worker's step leaves the store as it is,
\* adds an error of the line to the job's errors and leaves processedCount.
C39_EventIdsUnique ==
  /\ [](\A a, b \in events : (a.id # 0 /\ a.id = b.id) => a = b)
  /\ [][\A w \in Workers :
         (AtTakenId(w) /\ pc'[w] # pc[w]) =>
           /\ events' = events
           /\ processedCount'[w] = processedCount[w]
           /\ Len(errors'[w]) = Len(errors[w]) + 1
           /\ errors'[w][Len(errors'[w])].line = idx[w] + 1]_vars

\* A file holds the same eventId on two lines: the job has completed with
\* the first line written, the second line as its one error and one line
\* processed.
C39_Witness ==
  \E j \in JobIds :
    /\ jobs[j].status = "COMPLETED"
    /\ faults = 0
    /\ Len(fs[j].content) = 2
    /\ fs[j].content[1].id = fs[j].content[2].id
    /\ {e.line : e \in events} = {1}
    /\ jobs[j].processed_lines = 1
    /\ ErrorsOf(jobs[j]) = <<Msg(2, "duplicate key")>>

\* ---------------------------------------------------------------- C40
\* C40: every job that is PROCESSING becomes COMPLETED or FAILED, with no
\* worker terminated, also when the final progress update,
\* setJobStatus('COMPLETED') or setJobStatus('FAILED') has failed.
C40_ProcessingEnds ==
  \A j \in 1..MaxJobs :
    (j \in JobIds /\ jobs[j].status = "PROCESSING")
      ~> (j \in JobIds /\ jobs[j].status \in {"COMPLETED", "FAILED"})

\* ================================================================ records
\* The decoding, validation and storing of one input line, and the read side.
\*
\* Time is counted in ticks of 30 seconds, so that a minute is two ticks and
\* the rounding of durations to minutes is visible.
\* ------------------------------------------------------------------ bounds
\* Event ids 1..MaxEvents (0: a text that is no uuid); timestamps of input
\* records and of queried events 0..MaxInstant.
MaxEvents == 3
MaxInstant == 3

EventIds == 1..MaxEvents

Nullable(S) == {NULL} \cup {Val(v) : v \in S}

\* A text is empty, blank, plain, or plain with blanks around it.
Texts == {"", " ", "x", " x "}

\* String.prototype.trim
trim(s) == IF s = " x " THEN "x" ELSE IF s = " " THEN "" ELSE s

\* JavaScript's falsy values among the nullable texts: undefined, null, "".
Falsy(v) == v = NULL \/ v = Val("")

\* v || null
OrNull(v) == IF Falsy(v) THEN NULL ELSE v

\* A timestamp text: the instant it denotes (-1: it denotes none) and whether
\* it is written as Date.prototype.toISOString writes it.
Timestamps ==
  [at : 0..MaxInstant, iso : BOOLEAN] \cup {[at |-> -1, iso |-> FALSE]}

\* What a line says, whatever its layout: the fields of an event and, as
\* durationMinutes, a duration the sender has computed (7: none that the
\* timestamps of the model give).
Fields ==
  [eventId : Nullable({1}), eventName : Nullable(Texts \ {""}) \ {NULL},
   description : {NULL, Val(" x ")},
   startDate : Nullable(Timestamps), endDate : Nullable(Timestamps),
   parent : Nullable(EventIds), metadata : Nullable({"attrs"}),
   durationMinutes : Nullable({7})]
    \cup [eventId : {NULL}, eventName : {NULL, Val("")}, description : {NULL},
          startDate : {Val([at |-> 0, iso |-> TRUE])},
          endDate : {Val([at |-> 1, iso |-> TRUE])},
          parent : {NULL}, metadata : {NULL}, durationMinutes : {NULL}]

\* A line is a JSON object that names its parent under the key parentId or
\* under the key parentEventId, or a delimited row of seven columns or more
\* (eventId|eventName|startDate|endDate|parentId|researchValue|description),
\* or a delimited row of four to six columns
\* (eventName|description|startDate|endDate|parentEventId|metadata), which
\* has no column for the eventId. Neither row has a column for a duration.
Layouts == {"json:parentId", "json:parentEventId", "rich", "minimal"}

InputLines ==
  {l \in [layout : Layouts, f : Fields] :
     /\ l.layout = "minimal" => l.f.eventId = NULL
     /\ l.layout \in {"rich", "minimal"} => l.f.durationMinutes = NULL}

\* JSON.parse(line): the object has the keys the line has.
JSONparse(l) ==
  [eventId |-> l.f.eventId, eventName |-> l.f.eventName,
   description |-> l.f.description,
   startDate |-> l.f.startDate, endDate |-> l.f.endDate,
   parentId |-> IF l.layout = "json:parentId" THEN l.f.parent ELSE NULL,
   parentEventId |->
     IF l.layout = "json:parentEventId" THEN l.f.parent ELSE NULL,
   metadata |-> l.f.metadata,
   durationMinutes |-> l.f.durationMinutes]

\* A column of the split line: part.replace(/^"|"$/g, '').trim(); a column
\* the line leaves empty is the empty string.
Part(v) == IF v = NULL THEN Val("") ELSE Val(trim(v[1]))

parseEventLine(l) ==
  IF l.layout = "rich"
  THEN [eventId |-> IF l.f.eventId = NULL THEN Val(0) ELSE l.f.eventId,
        eventName |-> Part(l.f.eventName),
        description |-> OrNull(Part(l.f.description)),
        startDate |-> l.f.startDate, endDate |-> l.f.endDate,
        parentId |-> l.f.parent,
        parentEventId |-> NULL,
        metadata |-> IF l.f.metadata = NULL THEN Val("{}") ELSE l.f.metadata,
        durationMinutes |-> NULL]
  ELSE [eventId |-> NULL,
        eventName |-> Part(l.f.eventName),
        description |-> OrNull(Part(l.f.description)),
        startDate |-> l.f.startDate, endDate |-> l.f.endDate,
        parentId |-> NULL,
        parentEventId |-> l.f.parent,
        metadata |-> l.f.metadata,
        durationMinutes |-> NULL]

\* try { JSON.parse(line) } catch { parseEventLine(line, i + 1, delimiter) }
Decode(l) ==
  IF l.layout \in {"json:parentId", "json:parentEventId"}
  THEN JSONparse(l) ELSE parseEventLine(l)

\* Date.prototype.toISOString of the instant a timestamp text denotes.
toISOString(t) == [at |-> t.at, iso |-> TRUE]

\* Mutant: Math.floor
CeilMinutes_Floor(ticks) == ticks \div 2

\* Math.ceil((endDate - startDate) / (1000 * 60)), of a number of ticks.
CeilMinutes(ticks) == (ticks + 1) \div 2

Thrown(text) == [ok |-> FALSE, message |-> text]

\* eventData.parentId || null and eventData.metadata || null turn undefined
\* into null: both are NULL here.
validateAndTransformEvent(d) ==
  IF Falsy(d.eventName)
  THEN Thrown("Event name is required and must be a string")
  ELSE IF d.startDate = NULL \/ d.endDate = NULL
  THEN Thrown("Start date and end date are required")
  ELSE IF d.startDate[1].at = -1 \/ d.endDate[1].at = -1
  THEN Thrown("Invalid date format. Use ISO 8601 format.")
  ELSE IF d.startDate[1].at >= d.endDate[1].at
  THEN Thrown("Start date must be before end date")
  ELSE [ok |-> TRUE,
        event |->
          [eventId |-> d.eventId,
           eventName |-> trim(d.eventName[1]),
           description |->
             IF Falsy(d.description) THEN NULL
             ELSE Val(trim(d.description[1])),
           startDate |-> toISOString(d.startDate[1]),
           endDate |-> toISOString(d.endDate[1]),
           durationMinutes |->
             CeilMinutes(d.endDate[1].at - d.startDate[1].at),
           parentEventId |-> d.parentId,
           metadata |-> d.metadata]]

\* The row INSERT INTO historical_events writes for an event, under the id.
InsertedRow(id, ev) ==
  [event_id |-> id, event_name |-> ev.eventName,
   description |-> ev.description,
   start_date |-> ev.startDate.at, end_date |-> ev.endDate.at,
   duration_minutes |-> ev.durationMinutes,
   parent_event_id |-> ev.parentEventId, metadata |-> ev.metadata]

StoredIds == {e.event_id : e \in historical_events}

RowOf(id) == CHOOSE e \in historical_events : e.event_id = id

\* const { eventId = uuidv4(), ... } = event: the ids the row may get.
InsertIds(ev) ==
  IF ev.eventId = NULL THEN EventIds \ StoredIds ELSE {ev.eventId[1]}

\* The INSERT fails on a text that is no uuid and on a primary key in use.
InsertRejected(id) == id \notin EventIds \/ id \in StoredIds

Serving(op) == call.op = op /\ reply = NoReply

\* One iteration of the loop of processIngestionJob, on the line call.line.
\* The line fails to decode or to validate.
RejectRecord ==
  /\ Serving("ingest")
  /\ LET v == validateAndTransformEvent(Decode(call.line))
     IN  /\ ~v.ok
         /\ reply' = [kind |-> "lineError", message |-> v.message]
  /\ UNCHANGED <<ivars, historical_events, call, cte, reads>>

\* The line validates and batchInsertEvents([validatedEvent]) writes its row.
StoreRecord ==
  /\ Serving("ingest")
  /\ LET v == validateAndTransformEvent(Decode(call.line))
     IN  /\ v.ok
         /\ \E id \in InsertIds(v.event) :
              /\ ~InsertRejected(id)
              /\ historical_events' =
                   historical_events \cup {InsertedRow(id, v.event)}
              /\ reply' = [kind |-> "written", event_id |-> id]
  /\ UNCHANGED <<ivars, call, cte, reads>>

\* The line validates and the INSERT fails: ROLLBACK, the error is the line's.
StoreRecordFails ==
  /\ Serving("ingest")
  /\ LET v == validateAndTransformEvent(Decode(call.line))
     IN  /\ v.ok
         /\ \E id \in InsertIds(v.event) : InsertRejected(id)
         /\ reply' = [kind |-> "lineError", message |-> "insert"]
  /\ UNCHANGED <<ivars, historical_events, call, cte, reads>>

\* ----------------------------------------------------- Hierarchy Builder
\* The recursive query of getTimelineByRootId iterates at most MaxDepth times
\* in the model: once more than a table of MaxEvents acyclic events needs.
MaxDepth == MaxEvents + 1

\* The event written from the line is asked for: getEventTimeline(event_id).
AskTimeline ==
  /\ call.op = "ingest"
  /\ reply.kind = "written"
  /\ call' = [op |-> "timeline", rootEventId |-> reply.event_id,
              line |-> call.line]
  /\ reply' = NoReply
  /\ UNCHANGED <<ivars, historical_events, cte, reads>>

\* WITH RECURSIVE event_hierarchy, the base case: WHERE event_id = $1.
TimelineBase ==
  /\ Serving("timeline")
  /\ ~cte.started
  /\ LET found == {call.rootEventId} \cap StoredIds
     IN  cte' = [started |-> TRUE, level |-> 0, work |-> found,
                 rows |-> {[event_id |-> id, level |-> 0] : id \in found}]
  /\ reads' = reads + 1
  /\ UNCHANGED <<ivars, historical_events, call, reply>>

\* The rows the recursive case joins to the working table:
\* he.parent_event_id = eh.event_id.
ChildrenOf(work) ==
  {e.event_id : e \in {h \in historical_events :
                         h.parent_event_id \in {Val(id) : id \in work}}}

\* One iteration of the recursive case; UNION ALL keeps every row.
TimelineRecurse ==
  /\ Serving("timeline")
  /\ cte.started
  /\ cte.work # {}
  /\ cte.level < MaxDepth
  /\ LET next == ChildrenOf(cte.work)
     IN  cte' = [started |-> TRUE, level |-> cte.level + 1, work |-> next,
                 rows |-> cte.rows \cup
                   {[event_id |-> id, level |-> cte.level + 1] : id \in next}]
  /\ UNCHANGED <<ivars, historical_events, call, reply, reads>>

\* ORDER BY level alone.
Before_LevelOnly(a, b) == a.level <= b.level

\* ORDER BY level, start_date: the orders the rows may come back in (rows
\* that agree on both come back in either order).
Before(a, b) ==
  \/ a.level < b.level
  \/ a.level = b.level
       /\ RowOf(a.event_id).start_date <= RowOf(b.event_id).start_date

OrderedRows(rows) ==
  {f \in [1..Cardinality(rows) -> rows] :
     /\ \A i, j \in DOMAIN f : i # j => f[i] # f[j]
     /\ \A i, j \in DOMAIN f : i < j => Before(f[i], f[j])}

\* getEventTimeline, after the query: the first pass makes a node of every
\* row and the second pass hangs every node whose parent is in the map under
\* that parent, in the order of the rows; a node is a record of the event's
\* fields and the ids of its children. (The query returns only when no row
\* of it repeats an event, so the map has one entry a row.)
getEventTimeline(flat, rootEventId) ==
  IF Len(flat) = 0 THEN [kind |-> "NotFound"]
  ELSE
    LET ids == {flat[i].event_id : i \in DOMAIN flat}
        order == [i \in DOMAIN flat |-> flat[i].event_id]
        Attached(id) ==
          /\ RowOf(id).parent_event_id # NULL
          /\ RowOf(id).parent_event_id[1] \in ids
        node == [id \in ids |->
          LET Under(c) == Attached(c) /\ RowOf(c).parent_event_id = Val(id)
          IN  [eventId |-> id,
               eventName |-> RowOf(id).event_name,
               description |-> RowOf(id).description,
               startDate |-> RowOf(id).start_date,
               endDate |-> RowOf(id).end_date,
               durationMinutes |-> RowOf(id).duration_minutes,
               parentEventId |-> RowOf(id).parent_event_id,
               metadata |-> RowOf(id).metadata,
               children |-> SelectSeq(order, Under)]]
    IN  [kind |-> "tree",
         rootEvent |->
           IF rootEventId \in ids /\ ~Attached(rootEventId)
           THEN Val(rootEventId) ELSE NULL,
         node |-> node]

\* Mutant: the query marks the rows it has returned.
TimelineReturn_MarksRows ==
  /\ Serving("timeline")
  /\ cte.started
  /\ cte.work = {}
  /\ \E flat \in OrderedRows(cte.rows) :
       reply' = getEventTimeline(flat, call.rootEventId)
  /\ historical_events' =
       {IF \E r \in cte.rows : r.event_id = e.event_id
        THEN [e EXCEPT !.metadata = Val("read")] ELSE e :
          e \in historical_events}
  /\ UNCHANGED <<ivars, call, cte, reads>>

\* The recursion has ended: the rows come back and the tree is built.
TimelineReturn ==
  /\ Serving("timeline")
  /\ cte.started
  /\ cte.work = {}
  /\ \E flat \in OrderedRows(cte.rows) :
       reply' = getEventTimeline(flat, call.rootEventId)
  /\ UNCHANGED <<ivars, historical_events, call, cte, reads>>

\* A line is ingested into the empty table and its event is asked for.
RecordInit ==
  /\ WorkersIdle
  /\ historical_events = {}
  /\ call \in [op : {"ingest"}, line : InputLines]
  /\ cte = NoCte
  /\ reply = NoReply
  /\ reads = 0

RecordNext ==
  \/ RejectRecord \/ StoreRecord \/ StoreRecordFails
  \/ AskTimeline \/ TimelineBase \/ TimelineRecurse \/ TimelineReturn

RecordSpec == RecordInit /\ [][RecordNext]_vars

\* The line being ingested, or whose event is being asked for.
GivenParent == call.line.f.parent

\* C11: a parent reference supplied on an input record, under either field
\* name of a structured line or in the parent column of either delimited
\* layout, is the parent_event_id of the row written for the record.
C11_ParentReferenceStored ==
  \A e \in historical_events :
    GivenParent # NULL => e.parent_event_id = GivenParent

\* C12: a valid record that was ingested and has no children comes back from
\* getEventTimeline as a single node without children whose eventId,
\* eventName, description, startDate, endDate, parentEventId and metadata
\* are those of the record (texts up to the blanks around them, timestamps
\* as the instants they denote).
C12_RoundTrip ==
  (call.op = "timeline" /\ reply.kind = "tree") =>
    /\ reply.rootEvent = Val(call.rootEventId)
    /\ LET n == reply.node[call.rootEventId]
           f == call.line.f
       IN  n.children = <<>> =>
             /\ f.eventId # NULL => Val(n.eventId) = f.eventId
             /\ n.eventName = trim(f.eventName[1])
             /\ n.description = OrNull(Part(f.description))
             /\ Val(n.startDate) = Val(f.startDate[1].at)
             /\ Val(n.endDate) = Val(f.endDate[1].at)
             /\ n.parentEventId = f.parent
             /\ n.metadata = f.metadata

\* The least number of whole minutes that hold a number of ticks.
WholeMinutes(ticks) ==
  CHOOSE m \in 0..ticks : 2 * m >= ticks /\ (m = 0 \/ 2 * (m - 1) < ticks)

\* C22: every event the pipeline writes has durationMinutes equal to the
\* ceiling of (endDate - startDate) in minutes, of the two timestamps of the
\* record and whatever durationMinutes the record carries itself, and at
\* least 1; one hour and a half (180 ticks) is 90 minutes.
C22_DurationIsCeiling ==
  /\ CeilMinutes(180) = 90
  /\ \A e \in historical_events :
       LET f == call.line.f
       IN  /\ e.duration_minutes =
                WholeMinutes(f.endDate[1].at - f.startDate[1].at)
           /\ e.duration_minutes >= 1

\* A record of a minute and a half that says it lasts 7 minutes is written
\* with 2, and a record of half a minute with 1.
C22_Witness ==
  \E e \in historical_events :
    /\ call.line.f.durationMinutes = Val(7)
    /\ \/ e.end_date - e.start_date = 3 /\ e.duration_minutes = 2
       \/ e.end_date - e.start_date = 1 /\ e.duration_minutes = 1

\* The decoded record has a name that is present and not empty, both
\* timestamps, each of which denotes an instant, and starts before it ends.
Acceptable(d) ==
  /\ d.eventName # NULL /\ d.eventName # Val("")
  /\ d.startDate # NULL /\ d.endDate # NULL
  /\ d.startDate[1].at # -1 /\ d.endDate[1].at # -1
  /\ d.startDate[1].at < d.endDate[1].at

\* C23: a decoded record is written iff its name is present and non-empty,
\* both timestamps are present and parseable and the start is strictly
\* before the end; a record that fails one of these gives a line error and
\* no event; every event of the table has a non-empty eventName and
\* startDate < endDate.
C23_WrittenIffValid ==
  /\ (call.op = "ingest" /\ reply # NoReply) =>
       IF Acceptable(Decode(call.line))
       THEN reply.kind = "written" /\ historical_events # {}
       ELSE reply.kind = "lineError" /\ historical_events = {}
  /\ \A e \in historical_events :
       e.event_name # "" /\ e.start_date < e.end_date

\* ------------------------------------------------- tables that are queried
\* Start times of the events of a hierarchy: 0..MaxStart.
MaxStart == 1

\* A row of historical_events as the pipeline writes it, by the columns the
\* queries look at.
QueryRow(id, par, s, e) ==
  [event_id |-> id, event_name |-> "x", description |-> NULL,
   start_date |-> s, end_date |-> e, duration_minutes |-> CeilMinutes(e - s),
   parent_event_id |-> par, metadata |-> NULL]

\* The table of the events DOMAIN par, with their parents and intervals.
Table(par, iv) ==
  {QueryRow(i, par[i], iv[i][1], iv[i][2]) : i \in DOMAIN par}

\* No foreign key and no check keeps parent_event_id from naming the event
\* itself, a descendant of it, or no event at all (MaxEvents + 1).
TimelineTables ==
  {Table(par, [i \in EventIds |-> <<st[i], st[i] + 1>>]) :
     par \in [EventIds -> Nullable(1..MaxEvents + 1)],
     st \in [EventIds -> 0..MaxStart]}

\* getEventTimeline(rootEventId) on any table, for any id.
TimelineInit ==
  /\ WorkersIdle
  /\ historical_events \in TimelineTables
  /\ call \in [op : {"timeline"}, rootEventId : 1..MaxEvents + 1]
  /\ cte = NoCte
  /\ reply = NoReply
  /\ reads = 0

TimelineNext == TimelineBase \/ TimelineRecurse \/ TimelineReturn

TimelineSpec == TimelineInit /\ [][TimelineNext]_vars

\* The events whose parentEventId is an event of S.
Kids(S) ==
  {e.event_id : e \in {h \in historical_events :
                         \E p \in S : h.parent_event_id = Val(p)}}

\* S and the events reachable from S through at most k child links.
RECURSIVE Descendants(_, _)
Descendants(S, k) ==
  IF k = 0 THEN S ELSE Descendants(S \cup Kids(S), k - 1)

Reachable(r) == Descendants({r}, Cardinality(historical_events))

\* No event is its own descendant.
Acyclic ==
  \A id \in StoredIds :
    id \notin Descendants(Kids({id}), Cardinality(historical_events))

Range(q) == {q[i] : i \in DOMAIN q}

\* The nodes of the returned tree: its root and what hangs under it.
RECURSIVE NodesUnder(_, _)
NodesUnder(S, k) ==
  IF k = 0 THEN S
  ELSE NodesUnder(
         S \cup UNION {Range(reply.node[n].children) : n \in S}, k - 1)

\* C13: on an acyclic table getEventTimeline(r) signals NotFound when no
\* event has id r; otherwise it returns a tree rooted at r, also when r has a
\* parent, that holds exactly the events reachable from r through child
\* links, each once, where the children of a node are exactly the events
\* whose parentEventId is the node's id, in ascending startDate order.
C13_TreeOfReachableEvents ==
  (call.op = "timeline" /\ reply # NoReply /\ Acyclic) =>
    IF call.rootEventId \notin StoredIds THEN reply.kind = "NotFound"
    ELSE
      /\ reply.kind = "tree"
      /\ reply.rootEvent = Val(call.rootEventId)
      /\ LET nodes == NodesUnder({call.rootEventId},
                                 Cardinality(historical_events))
             ch(n) == reply.node[n].children
         IN  /\ nodes = Reachable(call.rootEventId)
             /\ \A n \in nodes :
                  /\ Range(ch(n)) = Kids({n})
                  /\ call.rootEventId \notin Range(ch(n))
                  /\ \A i, j \in DOMAIN ch(n) :
                       i < j =>
                         /\ ch(n)[i] # ch(n)[j]
                         /\ reply.node[ch(n)[i]].startDate
                              <= reply.node[ch(n)[j]].startDate
                  /\ \A m \in nodes \ {n} : Range(ch(n)) \cap Range(ch(m)) = {}

\* The tree of a root that has a child and whose own parent is in the table.
C13_Witness ==
  /\ call.op = "timeline"
  /\ reply.kind = "tree"
  /\ Acyclic
  /\ RowOf(call.rootEventId).parent_event_id \in {Val(id) : id \in StoredIds}
  /\ reply.rootEvent = Val(call.rootEventId)
  /\ Len(reply.node[call.rootEventId].children) = 1

\* C14: getEventTimeline terminates on every table, also when parent links
\* form a cycle that contains the root or is reachable from it: the
\* recursive query has run out of rows by the time it has iterated as often
\* as there are events. (If it has not, some event is its own descendant, and
\* the rows of that cycle bring each other back for ever.)
C14_BuildTreeTerminates ==
  (cte.started /\ cte.level >= Cardinality(historical_events)) =>
    cte.work = {}

\* ----------------------------------------------------- Temporal Analytics
\* The intervals of the events the pipeline writes: start before end.
Intervals == {iv \in (0..MaxInstant) \X (0..MaxInstant) : iv[1] < iv[2]}

\* Tables of up to MaxEvents events, whatever their intervals.
IntervalTables ==
  UNION {{Table([i \in 1..n |-> NULL], iv) : iv \in [1..n -> Intervals]} :
           n \in 0..MaxEvents}

\* The bounds of a window, as the caller gives them: an instant, or (-1) a
\* text that new Date does not parse.
WindowBounds == -1..MaxInstant

\* Mutant: the validation without the test start >= end.
WindowError_NoOrderTest(startDate, endDate) ==
  IF startDate = -1 \/ endDate = -1
  THEN Val("Invalid date format. Use ISO 8601 format.")
  ELSE NULL

\* The validation both analytics do on their window before they query.
WindowError(startDate, endDate) ==
  IF startDate = -1 \/ endDate = -1
  THEN Val("Invalid date format. Use ISO 8601 format.")
  ELSE IF startDate >= endDate
  THEN Val("Start date must be before end date")
  ELSE NULL

\* start_date >= $1 AND end_date <= $2
Contained(e, startDate, endDate) ==
  e.start_date >= startDate /\ e.end_date <= endDate

GREATEST(a, b) == IF a >= b THEN a ELSE b
LEAST(a, b) == IF a <= b THEN a ELSE b

\* ORDER BY: the sequences that hold each element of S once, in ascending
\* order of rank (elements of the same rank come in either order).
Arrangements(S, rank) ==
  {f \in [1..Cardinality(S) -> S] :
     /\ \A i, j \in DOMAIN f : i # j => f[i] # f[j]
     /\ \A i, j \in DOMAIN f : i < j => rank[f[i]] <= rank[f[j]]}

\* INNER JOIN historical_events e2 ON e1.event_id <> e2.event_id
OverlapJoin_BothOrders(e1, e2) == e1.event_id # e2.event_id

\* INNER JOIN historical_events e2 ON e1.event_id < e2.event_id
OverlapJoin(e1, e2) == e1.event_id < e2.event_id

\* db.findOverlappingEvents: the rows of the self-join, ORDER BY overlap_start.
db_findOverlappingEvents(startDate, endDate) ==
  LET rows ==
        {[event1_id |-> e1.event_id, event1_name |-> e1.event_name,
          event1_start |-> e1.start_date, event1_end |-> e1.end_date,
          event2_id |-> e2.event_id, event2_name |-> e2.event_name,
          event2_start |-> e2.start_date, event2_end |-> e2.end_date,
          overlap_start |-> GREATEST(e1.start_date, e2.start_date),
          overlap_end |-> LEAST(e1.end_date, e2.end_date)] :
            <<e1, e2>> \in
              {p \in historical_events \X historical_events :
                 /\ OverlapJoin(p[1], p[2])
                 /\ Contained(p[1], startDate, endDate)
                 /\ Contained(p[2], startDate, endDate)
                 /\ p[1].start_date <= p[2].end_date
                 /\ p[1].end_date >= p[2].start_date}}
  IN  Arrangements(rows, [r \in rows |-> r.overlap_start])

\* `${overlap.event1_id}-${overlap.event2_id}`
pairKey(overlap) == <<overlap.event1_id, overlap.event2_id>>

\* findOverlappingEvents, after the query: one group for the first row of
\* each pair key.
overlappingGroups(overlaps) ==
  LET First(i) ==
        \A j \in 1..i - 1 : pairKey(overlaps[j]) # pairKey(overlaps[i])
      kept == SelectSeq([i \in DOMAIN overlaps |-> i], First)
  IN  [k \in DOMAIN kept |->
        LET overlap == overlaps[kept[k]]
        IN  [events |->
               <<[eventId |-> overlap.event1_id,
                  eventName |-> overlap.event1_name,
                  startDate |-> overlap.event1_start,
                  endDate |-> overlap.event1_end],
                 [eventId |-> overlap.event2_id,
                  eventName |-> overlap.event2_name,
                  startDate |-> overlap.event2_start,
                  endDate |-> overlap.event2_end]>>,
             overlapStart |-> overlap.overlap_start,
             overlapEnd |-> overlap.overlap_end]]

\* findOverlappingEvents(startDate, endDate) rejects its window.
OverlapsRejected ==
  /\ Serving("overlaps")
  /\ WindowError(call.startDate, call.endDate) # NULL
  /\ reply' = [kind |-> "ValidationError",
               message |-> WindowError(call.startDate, call.endDate)[1]]
  /\ UNCHANGED <<ivars, historical_events, call, cte, reads>>

\* findOverlappingEvents(startDate, endDate) returns its groups.
OverlapsReturn ==
  /\ Serving("overlaps")
  /\ WindowError(call.startDate, call.endDate) = NULL
  /\ \E overlaps \in db_findOverlappingEvents(call.startDate, call.endDate) :
       reply' = [kind |-> "overlaps",
                 overlappingGroups |-> overlappingGroups(overlaps)]
  /\ reads' = reads + 1
  /\ UNCHANGED <<ivars, historical_events, call, cte>>

OverlapInit ==
  /\ WorkersIdle
  /\ historical_events \in IntervalTables
  /\ call \in [op : {"overlaps"}, startDate : WindowBounds,
               endDate : WindowBounds]
  /\ cte = NoCte
  /\ reply = NoReply
  /\ reads = 0

OverlapNext == OverlapsRejected \/ OverlapsReturn

OverlapSpec == OverlapInit /\ [][OverlapNext]_vars

\* The events that lie fully inside the window of the call.
InWindow ==
  {e \in historical_events :
     e.start_date >= call.startDate /\ e.end_date <= call.endDate}

\* The unordered pairs of distinct events in the window whose intervals
\* intersect, by their ids.
IntersectingPairs ==
  {{a.event_id, b.event_id} : <<a, b>> \in
     {p \in InWindow \X InWindow :
        /\ p[1] # p[2]
        /\ p[1].start_date <= p[2].end_date
        /\ p[1].end_date >= p[2].start_date}}

GroupIds(g) == {g.events[1].eventId, g.events[2].eventId}

\* C15: for a valid window findOverlappingEvents returns exactly one group
\* for each unordered pair of distinct events that both lie inside the
\* window and whose intervals intersect, and no other group; the interval of
\* a group is max(start1, start2) .. min(end1, end2).
C15_OneGroupPerIntersectingPair ==
  (call.op = "overlaps" /\ reply # NoReply
     /\ call.startDate # -1 /\ call.endDate # -1
     /\ call.startDate < call.endDate) =>
    /\ reply.kind = "overlaps"
    /\ LET G == reply.overlappingGroups
       IN  /\ \A pr \in IntersectingPairs :
                Cardinality({i \in DOMAIN G : GroupIds(G[i]) = pr}) = 1
           /\ \A i \in DOMAIN G :
                /\ GroupIds(G[i]) \in IntersectingPairs
                /\ \A k \in 1..2 :
                     /\ G[i].events[k].startDate =
                          RowOf(G[i].events[k].eventId).start_date
                     /\ G[i].events[k].endDate =
                          RowOf(G[i].events[k].eventId).end_date
                /\ G[i].overlapStart =
                     GREATEST(G[i].events[1].startDate,
                              G[i].events[2].startDate)
                /\ G[i].overlapEnd =
                     LEAST(G[i].events[1].endDate, G[i].events[2].endDate)

\* A (0..2) and B (1..3) in a window that holds both: the one group 1..2.
C15_Witness ==
  /\ call.op = "overlaps"
  /\ reply.kind = "overlaps"
  /\ Cardinality(historical_events) = 2
  /\ Len(reply.overlappingGroups) = 1
  /\ reply.overlappingGroups[1].events[1].startDate = 0
  /\ reply.overlappingGroups[1].events[1].endDate = 2
  /\ reply.overlappingGroups[1].events[2].startDate = 1
  /\ reply.overlappingGroups[1].events[2].endDate = 3
  /\ reply.overlappingGroups[1].overlapStart = 1
  /\ reply.overlappingGroups[1].overlapEnd = 2

\* ------------------------------------------------------------------- gaps
\* Tables for findTemporalGaps: events of one or two ticks in 0..MaxGapTime,
\* which leaves room for two gaps of different lengths.
MaxGapTime == 6

GapIntervals ==
  {iv \in (0..MaxGapTime) \X (0..MaxGapTime) :
     iv[1] < iv[2] /\ iv[2] - iv[1] <= 2}

GapTables ==
  UNION {{Table([i \in 1..n |-> NULL], iv) : iv \in [1..n -> GapIntervals]} :
           n \in 0..MaxEvents}

\* Windows: one that is no date, ones that cut events off, one that holds all.
GapWindowStarts == {-1, 0, 1}
GapWindowEnds == {-1, 0, MaxGapTime - 1, MaxGapTime}

\* ORDER BY start_date
ByStartDate(S) == [e \in S |-> e.start_date]

\* calculated_gaps, of the events in the order of the window
\* OVER (ORDER BY start_date): prev_end_date is LAG(end_date), the end of
\* the row before; gap_minutes is counted in ticks here.
calculated_gaps(order) ==
  {LET positive == i > 1 /\ order[i].start_date > order[i - 1].end_date
   IN  [event_id |-> order[i].event_id,
        event_name |-> order[i].event_name,
        start_date |-> order[i].start_date,
        gap_ticks |->
          IF positive THEN order[i].start_date - order[i - 1].end_date
          ELSE 0,
        gap_start |-> IF positive THEN Val(order[i - 1].end_date) ELSE NULL,
        gap_end |-> IF positive THEN Val(order[i].start_date) ELSE NULL] :
     i \in DOMAIN order}

\* ORDER BY gap_minutes ASC
LargerGapFirst_Ascending(g) == g.gap_ticks

\* ORDER BY gap_minutes DESC
LargerGapFirst(g) == 0 - g.gap_ticks

\* The outer SELECT of findLargestTemporalGap. WHERE gap_minutes > 0 is
\* applied before the window function of the select list, so
\* LAG(event_id) OVER (ORDER BY start_date) is the event_id of the row
\* before among the rows that have a gap.
db_findLargestTemporalGap(startDate, endDate) ==
  LET inside == {e \in historical_events : Contained(e, startDate, endDate)}
      Outer(gaps) ==
        LET kept == {g \in gaps : g.gap_ticks > 0}
            Lagged(w) ==
              {[gap_start |-> w[i].gap_start, gap_end |-> w[i].gap_end,
                gap_ticks |-> w[i].gap_ticks,
                preceding_event_id |->
                  IF i > 1 THEN Val(w[i - 1].event_id) ELSE NULL,
                preceding_event_name |->
                  IF i > 1 THEN Val(w[i - 1].event_name) ELSE NULL,
                following_event_id |-> w[i].event_id,
                following_event_name |-> w[i].event_name] : i \in DOMAIN w}
        IN  UNION {Arrangements(Lagged(w),
                                [g \in Lagged(w) |-> LargerGapFirst(g)]) :
                     w \in Arrangements(kept, ByStartDate(kept))}
  IN  UNION {Outer(calculated_gaps(order)) :
               order \in Arrangements(inside, ByStartDate(inside))}

\* Math.round(gap.gap_minutes), of a number of ticks.
RoundMinutes(ticks) == (ticks + 1) \div 2

\* findTemporalGaps, after the query.
formattedGaps(gaps) ==
  [k \in DOMAIN gaps |->
    [gapStart |-> gaps[k].gap_start[1], gapEnd |-> gaps[k].gap_end[1],
     gapDurationMinutes |-> RoundMinutes(gaps[k].gap_ticks),
     precedingEvent |->
       IF gaps[k].preceding_event_id # NULL
       THEN Val([eventId |-> gaps[k].preceding_event_id[1],
                 eventName |-> gaps[k].preceding_event_name[1]])
       ELSE NULL,
     followingEvent |->
       [eventId |-> gaps[k].following_event_id,
        eventName |-> gaps[k].following_event_name]]]

\* findTemporalGaps(startDate, endDate) rejects its window.
GapsRejected ==
  /\ Serving("gaps")
  /\ WindowError(call.startDate, call.endDate) # NULL
  /\ reply' = [kind |-> "ValidationError",
               message |-> WindowError(call.startDate, call.endDate)[1]]
  /\ UNCHANGED <<ivars, historical_events, call, cte, reads>>

\* The query returns no row: the empty result.
GapsNone ==
  /\ Serving("gaps")
  /\ WindowError(call.startDate, call.endDate) = NULL
  /\ <<>> \in db_findLargestTemporalGap(call.startDate, call.endDate)
  /\ reply' = [kind |-> "gaps", largestGap |-> NULL, allGaps |-> <<>>]
  /\ reads' = reads + 1
  /\ UNCHANGED <<ivars, historical_events, call, cte>>

\* The query returns rows: they are formatted, the first is the largest.
GapsReturn ==
  /\ Serving("gaps")
  /\ WindowError(call.startDate, call.endDate) = NULL
  /\ \E gaps \in db_findLargestTemporalGap(call.startDate, call.endDate) :
       /\ Len(gaps) > 0
       /\ reply' = [kind |-> "gaps",
                    largestGap |-> Val(formattedGaps(gaps)[1]),
                    allGaps |-> formattedGaps(gaps)]
  /\ reads' = reads + 1
  /\ UNCHANGED <<ivars, historical_events, call, cte>>

GapInit ==
  /\ WorkersIdle
  /\ historical_events \in GapTables
  /\ call \in [op : {"gaps"}, startDate : GapWindowStarts,
               endDate : GapWindowEnds]
  /\ cte = NoCte
  /\ reply = NoReply
  /\ reads = 0

GapNext == GapsRejected \/ GapsNone \/ GapsReturn

GapSpec == GapInit /\ [][GapNext]_vars

\* The start-time orders of the events inside the window of the call.
StartOrders == Arrangements(InWindow, [e \in InWindow |-> e.start_date])

\* C16: every gap findTemporalGaps returns names as its preceding event the
\* event immediately before the following event in start-time order among
\* the events in the window, whose end is the start of the gap, and as its
\* following event the event whose start is the end of the gap.
C16_GapNamesItsNeighbours ==
  (call.op = "gaps" /\ reply.kind = "gaps") =>
    \A k \in DOMAIN reply.allGaps :
      LET g == reply.allGaps[k]
      IN  /\ g.precedingEvent # NULL
          /\ RowOf(g.precedingEvent[1].eventId).end_date = g.gapStart
          /\ RowOf(g.followingEvent.eventId).start_date = g.gapEnd
          /\ \E order \in StartOrders : \E i \in 2..Len(order) :
               /\ order[i - 1].event_id = g.precedingEvent[1].eventId
               /\ order[i].event_id = g.followingEvent.eventId

\* The positive gaps between the events that follow each other in an order.
PositiveGaps(order) ==
  {[gapStart |-> order[i - 1].end_date, gapEnd |-> order[i].start_date,
    following |-> order[i].event_id] :
     i \in {n \in 2..Len(order) :
              order[n].start_date > order[n - 1].end_date}}

\* C17: allGaps holds exactly the positive gaps between the events that
\* follow each other in start-time order inside the window, in descending
\* order of duration; largestGap is a gap of allGaps of the greatest
\* duration; with no event or no positive gap the result is empty
\* (largestGap absent, allGaps empty) and no error.
C17_GapsSortedAndComplete ==
  (call.op = "gaps" /\ reply # NoReply
     /\ WindowError(call.startDate, call.endDate) = NULL) =>
    /\ reply.kind = "gaps"
    /\ LET G == reply.allGaps
           Shown(g) == [gapStart |-> g.gapStart, gapEnd |-> g.gapEnd,
                        following |-> g.followingEvent.eventId]
       IN  /\ \E order \in StartOrders :
                /\ {Shown(G[k]) : k \in DOMAIN G} = PositiveGaps(order)
                /\ Len(G) = Cardinality(PositiveGaps(order))
           /\ \A k \in DOMAIN G :
                G[k].gapDurationMinutes =
                  RoundMinutes(G[k].gapEnd - G[k].gapStart)
           /\ \A i, j \in DOMAIN G :
                i < j =>
                  /\ G[i].gapEnd - G[i].gapStart >= G[j].gapEnd - G[j].gapStart
                  /\ G[i].gapDurationMinutes >= G[j].gapDurationMinutes
           /\ IF Len(G) = 0 THEN reply.largestGap = NULL
              ELSE /\ reply.largestGap # NULL
                   /\ \E k \in DOMAIN G : reply.largestGap = Val(G[k])
                   /\ \A k \in DOMAIN G :
                        reply.largestGap[1].gapDurationMinutes
                          >= G[k].gapDurationMinutes

\* Two gaps of different lengths: the longer one comes first and is the
\* largest.
C17_Witness ==
  /\ call.op = "gaps"
  /\ reply.kind = "gaps"
  /\ Len(reply.allGaps) = 2
  /\ reply.allGaps[1].gapEnd - reply.allGaps[1].gapStart
       > reply.allGaps[2].gapEnd - reply.allGaps[2].gapStart
  /\ reply.allGaps[1].gapStart > reply.allGaps[2].gapStart
  /\ reply.largestGap = Val(reply.allGaps[1])

\* ---------------------------------------------------------- influence path
\* AND ip.path_length < 10: a path of the recursive query holds at most
\* PathLimit events.
PathLimit == 10

\* Tables for findEventInfluencePath: MaxEvents events with any parent among
\* them and a duration of one or two minutes, and chains 1 <- 2 <- ... <- n
\* (the parent of i is i - 1) that are as long as the query goes, or longer.
PathTables ==
  {Table(par, iv) :
     par \in [EventIds -> Nullable(EventIds)],
     iv \in [EventIds -> {<<0, 1>>, <<0, 3>>}]}

Chain(n) ==
  Table([i \in 1..n |-> IF i = 1 THEN NULL ELSE Val(i - 1)],
        [i \in 1..n |-> <<0, 1>>])

\* he.parent_event_id = ip.event_id OR he.event_id = ip.parent_event_id
Joined(he, id) ==
  \/ he.parent_event_id = Val(id)
  \/ Val(he.event_id) = RowOf(id).parent_event_id

\* The rows of influence_path whose path holds n events, by their path_ids.
RECURSIVE influence_path(_, _)
influence_path(sourceId, n) ==
  IF n = 1 THEN {<<id>> : id \in {sourceId} \cap StoredIds}
  ELSE {Append(ip, he.event_id) :
          <<ip, he>> \in
            {r \in influence_path(sourceId, n - 1) \X historical_events :
               /\ Joined(r[2], r[1][Len(r[1])])
               /\ \A k \in DOMAIN r[1] : r[1][k] # r[2].event_id
               /\ Len(r[1]) < PathLimit}}

\* ORDER BY path_length DESC
ShorterFirst_Longest(a, b) == Len(a) >= Len(b)

\* ORDER BY path_length ASC
ShorterFirst(a, b) == Len(a) <= Len(b)

\* db.findShortestInfluencePath: the rows it may return (LIMIT 1), by their
\* path_ids; none when no row ends at the target.
db_findShortestInfluencePath(sourceId, targetId) ==
  LET rows == {ip \in UNION {influence_path(sourceId, n) : n \in 1..PathLimit} :
                 ip[Len(ip)] = targetId}
  IN  {ip \in rows : \A other \in rows : ShorterFirst(ip, other)}

RECURSIVE SumOf(_, _)
SumOf(q, n) == IF n = 0 THEN 0 ELSE SumOf(q, n - 1) + q[n]

\* totalDurationMinutes without the duration of the source
totalDurationMinutes_SkipsSource(path_ids, failed) ==
  SumOf([k \in DOMAIN path_ids |->
           IF k \in failed \/ k = 1 THEN 0
           ELSE RowOf(path_ids[k]).duration_minutes], Len(path_ids))

\* totalDurationMinutes += eventDetails.duration_minutes || 0, for every
\* event of the path whose getEventById does not throw.
totalDurationMinutes(path_ids, failed) ==
  SumOf([k \in DOMAIN path_ids |->
           IF k \in failed THEN 0
           ELSE RowOf(path_ids[k]).duration_minutes], Len(path_ids))

\* The entries of shortestPath; the catch block enters an event whose
\* getEventById throws with the duration 0.
shortestPath(path_ids, failed) ==
  [k \in DOMAIN path_ids |->
    [event_id |-> path_ids[k],
     event_name |-> RowOf(path_ids[k]).event_name,
     duration_minutes |->
       IF k \in failed THEN 0 ELSE RowOf(path_ids[k]).duration_minutes]]

\* An id is missing (0), or both are the same: 400.
PathError(sourceEventId, targetEventId) ==
  IF sourceEventId = 0 \/ targetEventId = 0
  THEN Val("Both source and target event IDs are required")
  ELSE IF sourceEventId = targetEventId
  THEN Val("Source and target events cannot be the same")
  ELSE NULL

PathRejected ==
  /\ Serving("path")
  /\ PathError(call.sourceEventId, call.targetEventId) # NULL
  /\ reply' =
       [kind |-> "ValidationError",
        message |-> PathError(call.sourceEventId, call.targetEventId)[1]]
  /\ UNCHANGED <<ivars, historical_events, call, cte, reads>>

\* The query returns no row: 404.
PathNotFound ==
  /\ Serving("path")
  /\ PathError(call.sourceEventId, call.targetEventId) = NULL
  /\ db_findShortestInfluencePath(call.sourceEventId, call.targetEventId) = {}
  /\ reply' = [kind |-> "NotFound"]
  /\ reads' = reads + 1
  /\ UNCHANGED <<ivars, historical_events, call, cte>>

\* The query returns a row; the events of its path are looked up one by one,
\* and at most MaxFaults of the lookups throw.
PathReturn ==
  /\ Serving("path")
  /\ PathError(call.sourceEventId, call.targetEventId) = NULL
  /\ \E path_ids \in
         db_findShortestInfluencePath(call.sourceEventId, call.targetEventId) :
       \E failed \in {F \in SUBSET DOMAIN path_ids : Cardinality(F) <= MaxFaults} :
         /\ reads' = reads + 1 + Len(path_ids)
         /\ reply' = [kind |-> "path",
                      sourceEventId |-> call.sourceEventId,
                      targetEventId |-> call.targetEventId,
                      shortestPath |-> shortestPath(path_ids, failed),
                      totalDurationMinutes |->
                        totalDurationMinutes(path_ids, failed)]
  /\ UNCHANGED <<ivars, historical_events, call, cte>>

PathInit ==
  /\ WorkersIdle
  /\ \/ /\ historical_events \in PathTables
        /\ call \in [op : {"path"}, sourceEventId : 0..MaxEvents + 1,
                     targetEventId : 0..MaxEvents + 1]
     \/ /\ historical_events \in {Chain(PathLimit), Chain(PathLimit + 1)}
        /\ call \in [op : {"path"}, sourceEventId : {1},
                     targetEventId : {2, PathLimit, PathLimit + 1}]
  /\ cte = NoCte
  /\ reply = NoReply
  /\ reads = 0

PathNext == PathRejected \/ PathNotFound \/ PathReturn

PathSpec == PathInit /\ [][PathNext]_vars

\* The undirected graph of the parent pointers: an event and its parent.
Linked(a, b) ==
  \/ RowOf(a).parent_event_id = Val(b)
  \/ RowOf(b).parent_event_id = Val(a)

\* The events within k hops of the events of S.
RECURSIVE Ball(_, _)
Ball(S, k) ==
  IF k = 0 THEN S
  ELSE Ball(S \cup {b \in StoredIds : \E a \in S : a # b /\ Linked(a, b)},
            k - 1)

\* The call names two different events of the table and has been answered.
PathAnswered ==
  /\ call.op = "path"
  /\ reply # NoReply
  /\ call.sourceEventId # call.targetEventId
  /\ {call.sourceEventId, call.targetEventId} \subseteq StoredIds

PathIds == [k \in DOMAIN reply.shortestPath |-> reply.shortestPath[k].event_id]

\* C18: for two different events findEventInfluencePath returns a simple
\* path that starts at the source, ends at the target, links each event to
\* the next by a parent pointer (either way) and has the fewest hops of all
\* such paths; it signals NotFound if there is no path within the bound of
\* the search (paths of PathLimit events).
C18_ShortestSimplePath ==
  PathAnswered =>
    IF reply.kind = "path"
    THEN /\ PathIds[1] = call.sourceEventId
         /\ PathIds[Len(PathIds)] = call.targetEventId
         /\ \A i, j \in DOMAIN PathIds : i # j => PathIds[i] # PathIds[j]
         /\ \A i \in 1..Len(PathIds) - 1 : Linked(PathIds[i], PathIds[i + 1])
         /\ \A k \in 0..Len(PathIds) - 2 :
              call.targetEventId \notin Ball({call.sourceEventId}, k)
    ELSE /\ reply.kind = "NotFound"
         /\ call.targetEventId \notin Ball({call.sourceEventId}, PathLimit - 1)

\* B's parent is A and C's parent is B: findPath(A, C) is [A, B, C].
C18_Witness ==
  /\ PathAnswered
  /\ reply.kind = "path"
  /\ RowOf(1).parent_event_id = NULL
  /\ RowOf(2).parent_event_id = Val(1)
  /\ RowOf(3).parent_event_id = Val(2)
  /\ PathIds = <<1, 2, 3>>

\* C19: the hop bound of findEventInfluencePath is 10: a target whose
\* shortest path from the source has at most 10 hops is found, and NotFound
\* is signalled only when every path has more than 10 hops.
C19_TenHops ==
  PathAnswered =>
    (reply.kind = "path" <=>
       call.targetEventId \in Ball({call.sourceEventId}, 10))

ExploreJoin_Revisits(work) ==
  {Append(r[1], r[2].event_id) :
     r \in {x \in work \X historical_events :
              /\ Joined(x[2], x[1][Len(x[1])])
              /\ Len(x[1]) < PathLimit}}

\* The recursive case of influence_path on the working table, whose rows are
\* given by their path_ids: the join with historical_events, and the WHERE.
ExploreJoin(work) ==
  {Append(r[1], r[2].event_id) :
     r \in {x \in work \X historical_events :
              /\ Joined(x[2], x[1][Len(x[1])])
              /\ \A k \in DOMAIN x[1] : x[1][k] # x[2].event_id
              /\ Len(x[1]) < PathLimit}}

\* The base case: WHERE event_id = $1.
ExploreBase ==
  /\ Serving("path")
  /\ PathError(call.sourceEventId, call.targetEventId) = NULL
  /\ ~cte.started
  /\ LET found == {<<id>> : id \in {call.sourceEventId} \cap StoredIds}
     IN  cte' = [started |-> TRUE, level |-> 1, work |-> found, rows |-> found]
  /\ reads' = reads + 1
  /\ UNCHANGED <<ivars, historical_events, call, reply>>

\* One iteration of the recursive case: the rows it makes of the working
\* table are the next working table; the query iterates while there are any.
ExploreRecurse ==
  /\ Serving("path")
  /\ cte.started
  /\ cte.work # {}
  /\ LET next == ExploreJoin(cte.work)
     IN  cte' = [started |-> TRUE, level |-> cte.level + 1, work |-> next,
                 rows |-> cte.rows \cup next]
  /\ UNCHANGED <<ivars, historical_events, call, reply, reads>>

\* The working table is empty: WHERE event_id = $2 ORDER BY path_length ASC
\* LIMIT 1, and findEventInfluencePath makes its answer of the row, or
\* signals 404 when there is none.
ExploreReturn ==
  /\ Serving("path")
  /\ cte.started
  /\ cte.work = {}
  /\ LET rows == {ip \in cte.rows : ip[Len(ip)] = call.targetEventId}
         first == {ip \in rows : \A other \in rows : ShorterFirst(ip, other)}
     IN  IF first = {}
         THEN reply' = [kind |-> "NotFound"] /\ reads' = reads
         ELSE \E path_ids \in first :
                \E failed \in {F \in SUBSET DOMAIN path_ids :
                                  Cardinality(F) <= MaxFaults} :
                  /\ reads' = reads + Len(path_ids)
                  /\ reply' = [kind |-> "path",
                               sourceEventId |-> call.sourceEventId,
                               targetEventId |-> call.targetEventId,
                               shortestPath |-> shortestPath(path_ids, failed),
                               totalDurationMinutes |->
                                 totalDurationMinutes(path_ids, failed)]
  /\ UNCHANGED <<ivars, historical_events, call, cte>>

ExploreNext == PathRejected \/ ExploreBase \/ ExploreRecurse \/ ExploreReturn

\* The database runs a query it was given to its end.
ExploreSpec == PathInit /\ [][ExploreNext]_vars /\ WF_vars(ExploreNext)

\* C33: findPath terminates for every event set, cyclic parent pointers
\* included: the call is answered; no explored path holds an event twice,
\* and none is longer than PathLimit events (PathLimit - 1 hops, within the
\* bound of 10 hops); the query iterates at most PathLimit + 1 times.
C33_SearchTerminates ==
  /\ [](cte.started =>
         /\ \A ip \in cte.rows :
              /\ \A i, j \in DOMAIN ip : i # j => ip[i] # ip[j]
              /\ Len(ip) <= PathLimit
         /\ cte.level <= PathLimit + 1)
  /\ <>(reply # NoReply)

\* The parent pointers form the cycle 1 -> 3 -> 2 -> 1; the search from 1
\* has gone round it both ways and has answered.
C33_Witness ==
  /\ call.op = "path"
  /\ reply.kind = "path"
  /\ cte.started
  /\ Cardinality(historical_events) = MaxEvents
  /\ RowOf(1).parent_event_id = Val(3)
  /\ RowOf(3).parent_event_id = Val(2)
  /\ RowOf(2).parent_event_id = Val(1)
  /\ {<<1, 2, 3>>, <<1, 3, 2>>} \subseteq cte.rows

\* ======================================================= analytics, together
\* Any of the three analytics, on any of its tables, with any arguments.
AnalyticsInit == OverlapInit \/ GapInit \/ PathInit

AnalyticsNext == OverlapNext \/ GapNext \/ PathNext

AnalyticsSpec == AnalyticsInit /\ [][AnalyticsNext]_vars

\* The arguments the analytics must refuse.
BadWindow ==
  /\ call.op \in {"overlaps", "gaps"}
  /\ \/ call.startDate = -1
     \/ call.endDate = -1
     \/ call.startDate >= call.endDate

BadIds ==
  /\ call.op = "path"
  /\ \/ call.sourceEventId = 0
     \/ call.targetEventId = 0
     \/ call.sourceEventId = call.targetEventId

\* C21: findOverlappingEvents and findTemporalGaps with a bound that is no
\* timestamp or with windowStart >= windowEnd, and findEventInfluencePath
\* with a missing id or with the source as target, answer with a validation
\* error, which carries a message and no result, and have sent no statement
\* to the Event Store.
C21_ValidationFailsFast ==
  ((BadWindow \/ BadIds) /\ reply # NoReply) =>
    /\ reply.kind = "ValidationError"
    /\ DOMAIN reply = {"kind", "message"}
    /\ reads = 0

\* An inverted window, two equal ids and a missing id have been refused, each
\* on a table that holds events.
C21_Witness ==
  /\ reply.kind = "ValidationError"
  /\ historical_events # {}
  /\ reads = 0
  /\ \/ BadWindow /\ call.startDate > call.endDate /\ call.endDate # -1
     \/ BadIds /\ call.sourceEventId \in StoredIds

\* ================================================ the service and a worker
\* The analytics and the hierarchy are asked while a worker ingests a file
\* and while rows are written to historical_events.
\*
\* The table holds event 2 (0..1) and its child 3 (2..3); event 1 (1..2) is
\* written meanwhile, without a parent or as a child of 2.
ServiceTable == {QueryRow(2, NULL, 0, 1), QueryRow(3, Val(2), 2, 3)}

ServiceLines ==
  {[layout |-> "json:parentId",
    f |-> [eventId |-> Val(1), eventName |-> Val("x"), description |-> NULL,
           startDate |-> Val([at |-> 1, iso |-> TRUE]),
           endDate |-> Val([at |-> 2, iso |-> TRUE]),
           parent |-> par, metadata |-> NULL, durationMinutes |-> NULL]] :
     par \in {NULL, Val(2)}}

\* The calls: each operation with arguments it accepts and with arguments it
\* refuses or finds nothing for.
ServiceCalls ==
  [op : {"timeline"}, rootEventId : {2, MaxEvents + 1}]
    \cup [op : {"overlaps"}, startDate : {0, MaxInstant},
          endDate : {0, MaxInstant}]
    \cup [op : {"gaps"}, startDate : {0, MaxInstant}, endDate : {1, MaxInstant}]
    \cup [op : {"path"}, sourceEventId : {2}, targetEventId : {2, 3, MaxEvents + 1}]

\* A request arrives when no call is being served.
Request(c) ==
  /\ call = NoCall \/ reply # NoReply
  /\ call' = c
  /\ cte' = NoCte
  /\ reply' = NoReply
  /\ reads' = 0
  /\ UNCHANGED <<ivars, historical_events>>

\* batchInsertEvents of an ingestion commits the row of a line. A statement
\* in flight reads the snapshot it started on: the commit is seen by the
\* statements that start after it.
WriteRecord(l) ==
  /\ ~(cte.started /\ reply = NoReply)
  /\ LET v == validateAndTransformEvent(Decode(l))
     IN  /\ v.ok
         /\ \E id \in InsertIds(v.event) :
              /\ ~InsertRejected(id)
              /\ historical_events' =
                   historical_events \cup {InsertedRow(id, v.event)}
  /\ UNCHANGED <<ivars, call, cte, reply, reads>>

\* The steps of a worker in a run where no store or file operation fails.
IngestStep(w) ==
  \/ SelectJob(w) \/ CommitSelect(w) \/ Sleep(w) \/ SetProcessing(w)
  \/ ReadFile(w) \/ InitProgress(w)
  \/ SkipHeader(w) \/ RejectLine(w) \/ InsertEvent(w) \/ InsertDuplicate(w)
  \/ LineProgress(w) \/ FinalProgress(w) \/ Unlink(w) \/ SetCompleted(w)

ServiceInit ==
  /\ WorkersIdle
  /\ historical_events = ServiceTable
  /\ call = NoCall
  /\ cte = NoCte
  /\ reply = NoReply
  /\ reads = 0

ServiceNext ==
  \/ \E c \in ServiceCalls : Request(c)
  \/ TimelineBase \/ TimelineRecurse \/ TimelineReturn
  \/ OverlapsRejected \/ OverlapsReturn
  \/ GapsRejected \/ GapsNone \/ GapsReturn
  \/ PathRejected \/ PathNotFound \/ PathReturn
  \/ \E l \in ServiceLines : WriteRecord(l)
  \/ \E content \in Files : Len(jobs) = 0 /\ createIngestionJob(content)
  \/ IngestStep(1)

ServiceSpec == ServiceInit /\ [][ServiceNext]_vars

\* A step of the call being served: the call stays and its query, its
\* answer or its count of statements changes.
CallStep == call' = call /\ <<cte, reply, reads>>' # <<cte, reply, reads>>

\* C25: getEventTimeline, findOverlappingEvents, findTemporalGaps and
\* findEventInfluencePath are read-only: whatever their arguments and their
\* outcome, and whatever an ingestion does between their steps, a step of
\* theirs leaves the Event Store and the Job Store as they are.
C25_AnalyticsReadOnly ==
  [][CallStep => UNCHANGED <<historical_events, events, jobs>>]_vars

\* A tree has been returned while a job is PROCESSING, with an event of the
\* job written and a row committed since the service started.
C25_Witness ==
  /\ call.op = "timeline"
  /\ reply.kind = "tree"
  /\ reads = 1
  /\ events # {}
  /\ historical_events # ServiceTable
  /\ \E j \in JobIds : jobs[j].status = "PROCESSING"

\* C34: the Event Store is append-only: in every step of an ingestion job
\* or of a query every row that is in the store stays in it with every
\* field as it was.
C34_AppendOnly ==
  [][/\ events \subseteq events'
     /\ historical_events \subseteq historical_events']_vars

\* A job has completed with one event written and one line refused for its
\* duplicate eventId, a row has been committed since the service started
\* and a path query has been answered.
C34_Witness ==
  /\ \E j \in JobIds :
       /\ jobs[j].status = "COMPLETED"
       /\ Cardinality(EventsOf(j)) = 1
       /\ ErrorsOf(jobs[j]) = <<Msg(2, "duplicate key")>>
  /\ historical_events # ServiceTable
  /\ ServiceTable \subseteq historical_events
  /\ call.op = "path"
  /\ reply # NoReply

====
